---- MODULE Spec2Model ----
(***************************************************************************)
(* Adaptive RAG orchestrator of the LLM gateway                            *)
(* (services/llm-gateway-py/services/llm_service.py): one request handled  *)
(* by LLMServicer.GenerateWithRAG or LLMServicer.GenerateStream, the two   *)
(* query routers, the retrievers and the graders.                          *)
(*                                                                         *)
(* Text is a sequence of characters.  The source is UTF-8; a Vietnamese    *)
(* letter is written here in VIQR ("dd" is d-with-stroke, "a^." is a with  *)
(* circumflex and dot below, "o+`" is o with horn and grave), one string   *)
(* per character.                                                          *)
(***************************************************************************)
EXTENDS Integers, Sequences, FiniteSets, TLC

VARIABLES
    request,        \* the gRPC request: rpc, prompt, adaptive
    self,           \* the servicer: vector_store and web_search handles (configured or None), config.rag.max_retries
    state,          \* the RAGState of the request
    pc,             \* position of the handler
    route,          \* local `route` of GenerateWithRAG
    docs,           \* local `docs`
    relevant_docs,  \* local `relevant_docs`
    attempt,        \* loop variable of `for attempt in range(state.max_retries)`, -1 before the loop
    prompt,         \* local `prompt`
    full_response,  \* local `full_response`
    chunks,         \* number of chunks the current astream has produced
    replayed,       \* number of characters of full_response the replay loop has yielded
    out,            \* the responses yielded to the caller, in order
    calls,          \* how often each backend has been called
    metrics,        \* the counters of the process-wide MetricsCollector
    obs,            \* history of the request: classifier outcome, verdicts, fallbacks, route changes
    ingestion,      \* the locals of ingest_vietnamese_university_data and its upserts so far
    limiter,        \* the RateLimiter of the SecurityManager, and its last call
    threads,        \* the threads calling the MetricsCollector: their call and position
    process,        \* the process: its settings, the LLMServicer objects constructed, the registered one
    tasks           \* the handler tasks of the event loop: position, status, calls and tokens so far

vars == <<request, self, state, pc, route, docs, relevant_docs, attempt, prompt,
          full_response, chunks, replayed, out, calls, metrics, obs, ingestion,
          limiter,
          threads,
          process,
          tasks>>

-----------------------------------------------------------------------------
(* Bounds of the model *)

MaxRetriesBound == 3
MaxDocs == 2
MaxChunks == 2
MaxQueryLen == 4
MaxIngestDocs == 250
MaxRateLimit == 2
MaxWindowSeconds == 1
MaxClock == 1
MaxAllowed == 4
MaxThreads == 2
MaxHandlerCalls == 3
MaxLoopRetries == 2

-----------------------------------------------------------------------------
(* QueryRoute *)

VECTORSTORE == "vectorstore"
WEB_SEARCH == "web_search"
DIRECT_LLM == "direct_llm"

QueryRoute == {VECTORSTORE, WEB_SEARCH, DIRECT_LLM}

-----------------------------------------------------------------------------
(* str.lower() and the Vietnamese character class of _is_vietnamese_text *)

LowerTable ==
    "A" :> "a" @@ "B" :> "b" @@ "C" :> "c" @@ "D" :> "d" @@ "E" :> "e" @@ "F" :> "f" @@
    "G" :> "g" @@ "H" :> "h" @@ "I" :> "i" @@ "J" :> "j" @@ "K" :> "k" @@ "L" :> "l" @@
    "M" :> "m" @@ "N" :> "n" @@ "O" :> "o" @@ "P" :> "p" @@ "Q" :> "q" @@ "R" :> "r" @@
    "S" :> "s" @@ "T" :> "t" @@ "U" :> "u" @@ "V" :> "v" @@ "W" :> "w" @@ "X" :> "x" @@
    "Y" :> "y" @@ "Z" :> "z" @@
    "A`" :> "a`" @@ "A'" :> "a'" @@ "A." :> "a." @@ "A?" :> "a?" @@ "A~" :> "a~" @@ "A^" :> "a^" @@
    "A^`" :> "a^`" @@ "A^'" :> "a^'" @@ "A^." :> "a^." @@ "A^?" :> "a^?" @@ "A^~" :> "a^~" @@ "A(" :> "a(" @@
    "A(`" :> "a(`" @@ "A('" :> "a('" @@ "A(." :> "a(." @@ "A(?" :> "a(?" @@ "A(~" :> "a(~" @@ "E`" :> "e`" @@
    "E'" :> "e'" @@ "E." :> "e." @@ "E?" :> "e?" @@ "E~" :> "e~" @@ "E^" :> "e^" @@ "E^`" :> "e^`" @@
    "E^'" :> "e^'" @@ "E^." :> "e^." @@ "E^?" :> "e^?" @@ "E^~" :> "e^~" @@ "I`" :> "i`" @@ "I'" :> "i'" @@
    "I." :> "i." @@ "I?" :> "i?" @@ "I~" :> "i~" @@ "O`" :> "o`" @@ "O'" :> "o'" @@ "O." :> "o." @@
    "O?" :> "o?" @@ "O~" :> "o~" @@ "O^" :> "o^" @@ "O^`" :> "o^`" @@ "O^'" :> "o^'" @@ "O^." :> "o^." @@
    "O^?" :> "o^?" @@ "O^~" :> "o^~" @@ "O+" :> "o+" @@ "O+`" :> "o+`" @@ "O+'" :> "o+'" @@ "O+." :> "o+." @@
    "O+?" :> "o+?" @@ "O+~" :> "o+~" @@ "U`" :> "u`" @@ "U'" :> "u'" @@ "U." :> "u." @@ "U?" :> "u?" @@
    "U~" :> "u~" @@ "U+" :> "u+" @@ "U+`" :> "u+`" @@ "U+'" :> "u+'" @@ "U+." :> "u+." @@ "U+?" :> "u+?" @@
    "U+~" :> "u+~" @@ "Y`" :> "y`" @@ "Y'" :> "y'" @@ "Y." :> "y." @@ "Y?" :> "y?" @@ "Y~" :> "y~" @@
    "DD" :> "dd"

lower_char(c) == IF c \in DOMAIN LowerTable THEN LowerTable[c] ELSE c

lower(text) == [i \in 1..Len(text) |-> lower_char(text[i])]

vietnamese_pattern ==
    {
      "a`", "a'", "a.", "a?", "a~", "a^", "a^`", "a^'", "a^.", "a^?",
      "a^~", "a(", "a(`", "a('", "a(.", "a(?", "a(~", "e`", "e'", "e.",
      "e?", "e~", "e^", "e^`", "e^'", "e^.", "e^?", "e^~", "i`", "i'",
      "i.", "i?", "i~", "o`", "o'", "o.", "o?", "o~", "o^", "o^`",
      "o^'", "o^.", "o^?", "o^~", "o+", "o+`", "o+'", "o+.", "o+?", "o+~",
      "u`", "u'", "u.", "u?", "u~", "u+", "u+`", "u+'", "u+.", "u+?",
      "u+~", "y`", "y'", "y.", "y?", "y~", "dd"
    }

_is_vietnamese_text(text) ==
    \E i \in 1..Len(text) : lower(text)[i] \in vietnamese_pattern

-----------------------------------------------------------------------------
(* Keyword router *)

vietnamese_uni_keywords ==
    << <<"dd", "a.", "i", " ", "h", "o.", "c">>,
       <<"dd", "i", "e^?", "m", " ", "c", "h", "u", "a^?", "n">>,
       <<"t", "u", "y", "e^?", "n", " ", "s", "i", "n", "h">>,
       <<"n", "g", "a`", "n", "h", " ", "h", "o.", "c">>,
       <<"t", "r", "u+", "o+`", "n", "g">>,
       <<"k", "h", "o", "a">>,
       <<"b", "a'", "c", "h", " ", "k", "h", "o", "a">>,
       <<"k", "i", "n", "h", " ", "t", "e^'">>,
       <<"l", "u", "a^.", "t">>,
       <<"y", " ", "k", "h", "o", "a">>,
       <<"x", "e'", "t", " ", "t", "u", "y", "e^?", "n">>,
       <<"h", "o.", "c", " ", "p", "h", "i'">>,
       <<"dd", "e^`", " ", "a'", "n">>,
       <<"c", "h", "i?", " ", "t", "i", "e^", "u">> >>

education_keywords ==
    << <<"u", "n", "i", "v", "e", "r", "s", "i", "t", "y">>,
       <<"c", "o", "l", "l", "e", "g", "e">>,
       <<"a", "d", "m", "i", "s", "s", "i", "o", "n">>,
       <<"d", "e", "g", "r", "e", "e">>,
       <<"c", "o", "u", "r", "s", "e">>,
       <<"c", "a", "r", "e", "e", "r">>,
       <<"j", "o", "b">>,
       <<"e", "d", "u", "c", "a", "t", "i", "o", "n">>,
       <<"s", "t", "u", "d", "y">>,
       <<"l", "e", "a", "r", "n">> >>

\* Python's `keyword in text` on strings
str_contains(keyword, text) ==
    \E i \in 0..(Len(text) - Len(keyword)) :
        SubSeq(text, i + 1, i + Len(keyword)) = keyword

\* `for keyword in keywords: if keyword in text: return ...`, from the k-th keyword on
RECURSIVE any_keyword_from(_, _, _)
any_keyword_from(keywords, text, k) ==
    IF k > Len(keywords) THEN FALSE
    ELSE IF str_contains(keywords[k], text) THEN TRUE
    ELSE any_keyword_from(keywords, text, k + 1)

\* the router without `query.lower()`
_route_query_case_sensitive(query) ==
    IF any_keyword_from(vietnamese_uni_keywords, query, 1) THEN VECTORSTORE
    ELSE IF any_keyword_from(education_keywords, query, 1) THEN VECTORSTORE
    ELSE WEB_SEARCH

_route_query(query) ==
    LET query_lower == lower(query) IN
    IF any_keyword_from(vietnamese_uni_keywords, query_lower, 1) THEN VECTORSTORE
    ELSE IF any_keyword_from(education_keywords, query_lower, 1) THEN VECTORSTORE
    ELSE WEB_SEARCH

-----------------------------------------------------------------------------
(* Query validation (utils/helpers.py) *)

whitespace == {" "}

\* str.strip(): the text without its leading and trailing whitespace
RECURSIVE lstrip(_)
lstrip(text) ==
    IF text # <<>> /\ Head(text) \in whitespace THEN lstrip(Tail(text)) ELSE text

RECURSIVE rstrip(_)
rstrip(text) ==
    IF text # <<>> /\ text[Len(text)] \in whitespace
    THEN rstrip(SubSeq(text, 1, Len(text) - 1))
    ELSE text

strip(text) == rstrip(lstrip(text))

MaxValidQueryLen == 10000

validate_query(query) ==
    IF query = <<>> THEN FALSE
    ELSE LET cleaned_query == strip(query) IN
         IF cleaned_query = <<>> \/ Len(cleaned_query) < 2 THEN FALSE
         ELSE IF Len(cleaned_query) > MaxValidQueryLen THEN FALSE
         ELSE TRUE

-----------------------------------------------------------------------------
(* Model-assisted router.  `classification` is what router_llm.invoke does:   *)
(* it returns an object with a datasource, returns None (no structured       *)
(* output, so that reading .datasource raises AttributeError), or raises.    *)

RouterOutcomes ==
    [kind : {"returns"}, datasource : QueryRoute] \cup
    [kind : {"none", "raises"}, datasource : {""}]

\* a router that hands on whatever datasource the classification names
_route_query_with_llm_passthrough(query, classification) ==
    IF classification.kind = "returns" THEN classification.datasource
    ELSE _route_query(query)

\* lines 427-450
_route_query_with_llm(query, classification) ==
    IF classification.kind = "returns"
    THEN IF classification.datasource = "web_search" THEN WEB_SEARCH
         ELSE IF classification.datasource = "vectorstore" THEN VECTORSTORE
         ELSE VECTORSTORE
    ELSE _route_query(query)

-----------------------------------------------------------------------------
(* Retrieval.  A backend call returns a sequence of documents or raises.     *)

VectorDocs == {"d1"}
WebDocs == {"w1"}

DocSeqs(D) == UNION {[1..n -> D] : n \in 0..MaxDocs}

BackendOutcomes(D) ==
    [raises : {FALSE}, docs : DocSeqs(D)] \cup [raises : {TRUE}, docs : {<<>>}]

\* one call of a retrieval function: whether its backend is configured, whether
\* the backend call raised, and what the function returned
Searched(backend, configured, search, returned) ==
    [backend |-> backend, configured |-> configured,
     raises |-> configured /\ search.raises, returned |-> returned]

\* a vector search that does not look whether the store is configured
_retrieve_documents_unchecked(vector_store, search) ==
    IF search.raises THEN <<>>
    ELSE search.docs

\* lines 315-330
_retrieve_documents(vector_store, search) ==
    IF ~vector_store THEN <<>>
    ELSE IF search.raises THEN <<>>
    ELSE search.docs

_web_search_documents(web_search, search) ==
    IF ~web_search THEN <<>>
    ELSE IF search.raises THEN <<>>
    ELSE search.docs

-----------------------------------------------------------------------------
(* Graders.  A grading call returns the score "yes", another score ("no"),   *)
(* or raises.                                                                *)

GradeOutcomes == {"yes", "no", "raises"}

\* the loop `for doc in documents` of _grade_documents, from the i-th document on
RECURSIVE grade_from(_, _, _, _)
grade_from(documents, scores, i, filtered_docs) ==
    IF i > Len(documents) THEN filtered_docs
    ELSE IF scores[i] = "raises" THEN grade_from(documents, scores, i + 1, Append(filtered_docs, documents[i]))
    ELSE IF scores[i] = "yes" THEN grade_from(documents, scores, i + 1, Append(filtered_docs, documents[i]))
    ELSE grade_from(documents, scores, i + 1, filtered_docs)

\* a relevance grader that hands back the relevant documents most recent first
_grade_documents_reranked(documents, scores) ==
    LET filtered_docs == grade_from(documents, scores, 1, <<>>) IN
    [i \in 1..Len(filtered_docs) |-> filtered_docs[Len(filtered_docs) + 1 - i]]

\* lines 362-395
_grade_documents(documents, scores) ==
    IF documents = <<>> THEN documents
    ELSE grade_from(documents, scores, 1, <<>>)

\* a groundedness grader that asks the model even when there is no evidence
_grade_hallucinations_always_asks(documents, score) ==
    IF score = "raises" THEN TRUE
    ELSE IF score = "yes" THEN TRUE
    ELSE FALSE

\* a groundedness grader whose failure counts as a rejection
_grade_hallucinations_fail_closed(documents, score) ==
    IF documents = <<>> THEN TRUE
    ELSE IF score = "yes" THEN TRUE
    ELSE FALSE

\* lines 397-425
_grade_hallucinations(documents, score) ==
    IF documents = <<>> THEN TRUE
    ELSE IF score = "raises" THEN TRUE
    ELSE IF score = "yes" THEN TRUE
    ELSE FALSE

\* lines 399-412: the number of model calls of one _grade_hallucinations call
hallucination_grader_calls(documents) ==
    IF documents = <<>> THEN 0 ELSE 1

-----------------------------------------------------------------------------
(* Prompt assembly: which template, which branch, and what is put into it *)

_build_vietnamese_rag_prompt(query, documents) ==
    [template |-> "vietnamese", evidence |-> documents # <<>>, question |-> query, context |-> documents]

_build_english_rag_prompt(query, documents) ==
    [template |-> "english", evidence |-> documents # <<>>, question |-> query, context |-> documents]

build_prompt(query, documents) ==
    IF _is_vietnamese_text(query)
    THEN _build_vietnamese_rag_prompt(query, documents)
    ELSE _build_english_rag_prompt(query, documents)

NoPrompt == [template |-> "", evidence |-> FALSE, question |-> <<>>, context |-> <<>>]

-----------------------------------------------------------------------------
(* The decisions of GenerateWithRAG *)

\* the fallback condition without the adaptive flag
should_fallback_any_mode(relevant, web_search, adaptive) ==
    relevant = <<>> /\ web_search

\* `if not relevant_docs and self.web_search and request.adaptive`
should_fallback(relevant, web_search, adaptive) ==
    relevant = <<>> /\ web_search /\ adaptive

\* every attempt streamed as it is generated
stream_in_real_time_always(adaptive, att, max_retries) ==
    TRUE

\* the first attempt streamed as it is generated, in adaptive mode too
stream_in_real_time_first_attempt(adaptive, att, max_retries) ==
    ~adaptive \/ att = 0 \/ att = max_retries - 1

\* `if not request.adaptive or attempt == state.max_retries - 1`
stream_in_real_time(adaptive, att, max_retries) ==
    ~adaptive \/ att = max_retries - 1

\* the grading condition without the retry budget
should_grade_every_attempt(adaptive, documents, att, max_retries) ==
    adaptive /\ documents # <<>>

\* the grading condition without the look at the evidence
should_grade_without_documents(adaptive, documents, att, max_retries) ==
    adaptive /\ att < max_retries - 1

\* the grading condition without the adaptive flag
should_grade_any_mode(adaptive, documents, att, max_retries) ==
    documents # <<>> /\ att < max_retries - 1

\* `if request.adaptive and state.documents and attempt < state.max_retries - 1`
should_grade(adaptive, documents, att, max_retries) ==
    adaptive /\ documents # <<>> /\ att < max_retries - 1

\* range(state.max_retries + 1)
range_has_next_inclusive(att, max_retries) ==
    att + 1 <= max_retries

\* `for attempt in range(state.max_retries)`: is there a next value
range_has_next(att, max_retries) ==
    att + 1 < max_retries

-----------------------------------------------------------------------------
(* Tokens.  A chunk of llm.astream has no `content`, or a content that is a  *)
(* (possibly empty) text.  A response carries a token; `attempt` and `error` *)
(* record which generation attempt it comes from and whether it is the token *)
(* built by the exception handler.                                           *)

Chunks ==
    { [has_content |-> FALSE, content |-> <<>>],
      [has_content |-> TRUE, content |-> <<>>],
      [has_content |-> TRUE, content |-> <<"a", "b">>] }

Response(token, att) == [token |-> token, attempt |-> att, error |-> FALSE]

\* f"Error: {str(e)}"
ErrorResponse(att) == [token |-> <<"Error: ">>, attempt |-> att, error |-> TRUE]

-----------------------------------------------------------------------------
(* RAGState *)

RAGState(question, documents, max_retries) ==
    [question |-> question, documents |-> documents, generation |-> <<>>,
     route |-> VECTORSTORE, iteration |-> 0, max_retries |-> max_retries]

-----------------------------------------------------------------------------
(* One request.  Init is the request on entry of its handler; for           *)
(* GenerateWithRAG the RAGState has been constructed (GenerateStream has     *)
(* none and leaves `state` alone).                                           *)

Queries == { <<>>, <<"J", "o", "b">>, <<"x">>, <<"DD">> }

Requests ==
    [rpc : {"GenerateWithRAG"}, prompt : Queries, adaptive : BOOLEAN] \cup
    [rpc : {"GenerateStream"}, prompt : Queries, adaptive : {FALSE}]

Servicers ==
    [vector_store : BOOLEAN, web_search : BOOLEAN, max_retries : 0..MaxRetriesBound]

NoCalls == [router |-> 0, vector |-> 0, web |-> 0, grade_documents |-> 0,
            grade_hallucinations |-> 0, astream |-> 0]

NotCalled == [kind |-> "not_called", datasource |-> ""]

\* classification: what the router's classification call did; verdicts: the
\* groundedness verdicts so far; fallbacks: executions of the fallback branch;
\* route_changes: assignments that changed state.route; web_results: what
\* _web_search_documents returned; empty_attempt: a finished attempt produced
\* no token; raised: the steps in which a call has raised an exception;
\* error: the handler's `except Exception` clause has run; searches: the calls
\* of _retrieve_documents and _web_search_documents so far; scores: what the
\* grading call of each document did in the last call of _grade_documents
NoObs == [classification |-> NotCalled, verdicts |-> <<>>, fallbacks |-> 0, route_changes |-> 0,
          web_results |-> <<>>, empty_attempt |-> FALSE, raised |-> {}, error |-> FALSE,
          searches |-> <<>>, scores |-> <<>>]

-----------------------------------------------------------------------------
(* utils/security.py: API keys and the RateLimiter.  An API key is modelled  *)
(* by what validate_api_key looks at: its length and whether all of its      *)
(* characters are of the permitted class.  A timestamp is a value of         *)
(* time.time(), the wall clock, which the operating system may set back.     *)

MinApiKeyLen == 16

ApiKeys ==
    { [len |-> 0, charset_ok |-> TRUE],
      [len |-> 15, charset_ok |-> TRUE],
      [len |-> 16, charset_ok |-> FALSE],
      [len |-> 16, charset_ok |-> TRUE] }

\* validate_api_key(api_key) with valid_keys = None
validate_api_key(api_key) ==
    IF api_key.len = 0 THEN FALSE
    ELSE IF api_key.len < MinApiKeyLen THEN FALSE
    ELSE IF ~api_key.charset_ok THEN FALSE
    ELSE TRUE

Clients == {"c1", "c2"}

Timestamps == 0..MaxClock

\* sum(count for _, count in entries)
RECURSIVE sum_counts(_)
sum_counts(entries) ==
    IF entries = <<>> THEN 0 ELSE Head(entries)[2] + sum_counts(Tail(entries))

\* [(timestamp, count) for timestamp, count in entries if timestamp > window_start]
RECURSIVE entries_after(_, _)
entries_after(entries, window_start) ==
    IF entries = <<>> THEN <<>>
    ELSE IF Head(entries)[1] > window_start
         THEN <<Head(entries)>> \o entries_after(Tail(entries), window_start)
         ELSE entries_after(Tail(entries), window_start)

\* self.requests: a client is absent from the dict or has a list of entries
Absent == [present |-> FALSE, entries |-> <<>>]

\* lines 194-204 of is_allowed: the dict after the old entries are cleaned
cleaned(requests, client_id, now, window_seconds) ==
    [requests EXCEPT ![client_id] =
        IF @.present
        THEN [present |-> TRUE, entries |-> entries_after(@.entries, now - window_seconds)]
        ELSE [present |-> TRUE, entries |-> <<>>]]

\* RateLimiter.is_allowed(client_id) at clock value `now`: the value returned
\* and the dict it leaves
is_allowed(rl, client_id, now) ==
    LET requests == cleaned(rl.requests, client_id, now, rl.window_seconds)
        total_requests == sum_counts(requests[client_id].entries) IN
    IF total_requests >= rl.max_requests
    THEN [allowed |-> FALSE, requests |-> requests]
    ELSE [allowed |-> TRUE,
          requests |-> [requests EXCEPT ![client_id].entries = Append(@, <<now, 1>>)]]

Max(a, b) == IF a >= b THEN a ELSE b

\* RateLimiter.get_remaining_requests(client_id) at clock value `now`
get_remaining_requests(rl, client_id, now) ==
    IF ~rl.requests[client_id].present THEN rl.max_requests
    ELSE LET current_requests ==
                 sum_counts(entries_after(rl.requests[client_id].entries, now - rl.window_seconds)) IN
         Max(0, rl.max_requests - current_requests)

\* no call has been made yet
NoCall == [op |-> "", client_id |-> "", now |-> 0, key_ok |-> TRUE, result |-> FALSE]

\* the RateLimiter of a SecurityManager: max_requests and window_seconds as
\* constructed, the dict `requests`, and for the record the number of
\* requests allowed so far for each client at each timestamp, and the last call
RateLimiter(max_requests, window_seconds) ==
    [max_requests |-> max_requests, window_seconds |-> window_seconds,
     requests |-> [c \in Clients |-> Absent],
     granted |-> [c \in Clients |-> [t \in Timestamps |-> 0]],
     last |-> NoCall]

NoLimiter == RateLimiter(0, 0)

-----------------------------------------------------------------------------
(* utils/metrics.py: the MetricsCollector and the threads that call it.  A   *)
(* thread makes one call; `pc` is its position in it, `tmp` the value it has  *)
(* read for an update `x += 1`, which reads x and then stores the sum.  The  *)
(* lock is a threading.Lock: it is held by nobody (0) or taken by a thread,  *)
(* and acquire waits until it is free, whoever holds it.                     *)

Threads == 1..MaxThreads

Buckets == {"b1", "b2"}

NoBucket == [present |-> FALSE, total_requests |-> 0, successful_requests |-> 0,
             failed_requests |-> 0]

AggregatedMetrics == [present |-> TRUE, total_requests |-> 0, successful_requests |-> 0,
                      failed_requests |-> 0]

MetricsCollector ==
    [total_requests |-> 0, total_errors |-> 0, lock |-> 0, metrics_history |-> <<>>,
     aggregated_metrics |-> [b \in Buckets |-> NoBucket]]

\* a call on entry: record_request with its RequestMetrics built (its success
\* flag, and the time bucket of its timestamp), or one of the readers
ThreadStarts ==
    [op : {"record_request"}, pc : {"lock"}, success : BOOLEAN, bucket : Buckets, tmp : {0}] \cup
    [op : {"get_current_stats", "get_error_summary", "export_metrics"}, pc : {"lock"},
     success : {TRUE}, bucket : {"b1"}, tmp : {0}]

\* the positions at which a thread is entering `with self.lock:`
WaitsForLock == {"lock", "stats_lock", "recent_lock"}

\* where a thread is once it has the lock
after_acquire(th) ==
    IF th.pc = "lock"
    THEN IF th.op = "record_request" THEN "append"
         ELSE IF th.op = "get_current_stats" THEN "stats"
         ELSE IF th.op = "get_error_summary" THEN "recent"
         ELSE "stats_lock"
    ELSE IF th.pc = "stats_lock" THEN "export_stats"
    ELSE "export_recent"

\* the positions at which a thread leaves a `with self.lock:` block
LeavesLock == {"unlock", "export_stats_unlock", "export_recent_unlock"}

\* where a thread is once it has left the block
after_release(th) ==
    IF th.pc = "export_stats_unlock" THEN "recent_lock"
    ELSE IF th.pc = "export_recent_unlock" THEN "unlock"
    ELSE "returned"

-----------------------------------------------------------------------------
(* main.py and admin/api.py: the process, the LLMServicer objects it has     *)
(* constructed so far, and the one registered with the gRPC server.          *)

\* the settings the process starts with
Configs == [pinecone_api_key : BOOLEAN, web_search_api_key : BOOLEAN,
            enable_admin_api : BOOLEAN]

\* LLMServicer(): __init__ runs _initialize_components, which creates the
\* model client, the vector store when there is a Pinecone key and the index
\* can be opened, and the web search tool when there is a key for it
LLMServicer(config, created_by, index_ok) ==
    [created_by |-> created_by,
     llm |-> TRUE,
     vector_store |-> config.pinecone_api_key /\ index_ok,
     web_search |-> config.web_search_api_key]

NoProcess == [config |-> [pinecone_api_key |-> FALSE, web_search_api_key |-> FALSE,
                          enable_admin_api |-> FALSE],
              started |-> FALSE, servicers |-> <<>>, registered |-> 0,
              grpc_requests |-> 0, admin_requests |-> 0]

-----------------------------------------------------------------------------
(* The handlers of concurrent requests as tasks of one asyncio event loop.   *)
(* A task runs from one suspension point to the next while every other task  *)
(* waits: it suspends at an `await` of a backend call and at a `yield` of a  *)
(* token, and nowhere else.  A call made without `await` keeps the loop.     *)

Tasks == {1, 2}

NoTask == [adaptive |-> FALSE, web_search |-> FALSE, status |-> "done", pc |-> "return",
           documents |-> <<>>, attempt |-> 0, chunks |-> 0, must_cancel |-> FALSE,
           calls |-> 0, tokens |-> 0]

\* the task of a request that has arrived and has not run yet
NewTask(adaptive, web_search) ==
    [NoTask EXCEPT !.adaptive = adaptive, !.web_search = web_search,
                   !.status = "ready", !.pc = "start"]

\* the backend calls of GenerateWithRAG made with `await` or `async for`
AwaitedOps == {"retrieve", "web_search", "fallback", "astream", "astream_next"}

\* the backend calls of GenerateWithRAG made by a plain call of `.invoke`
SyncOps == {"route_llm", "grade_documents", "grade_hallucinations"}

\* the `yield` statements of GenerateWithRAG
YieldPoints == {"stream_token", "replay", "error_token"}

\* `except Exception` catches every exception but those that only derive from
\* BaseException: asyncio.CancelledError and GeneratorExit
except_BaseException(exc) == exc \in {"Exception", "CancelledError", "GeneratorExit"}

except_Exception(exc) == exc = "Exception"

\* where the handler goes once the route is known
after_route(r) ==
    IF r = VECTORSTORE THEN "retrieve"
    ELSE IF r = WEB_SEARCH THEN "web_search"
    ELSE "loop"

\* where the handler goes once state.documents holds the graded documents
after_grade(task, relevant) ==
    IF should_fallback(relevant, task.web_search, task.adaptive) THEN "fallback" ELSE "loop"

\* the task resumed from its `await` with the outcome of the backend call
after_await(task, outcome) ==
    IF task.pc = "retrieve"
    THEN IF outcome = "docs"
         THEN [task EXCEPT !.status = "running", !.pc = "grade_documents"]
         ELSE [task EXCEPT !.status = "running", !.pc = after_grade(task, <<>>)]
    ELSE IF task.pc \in {"web_search", "fallback"}
    THEN [task EXCEPT !.status = "running", !.pc = "loop",
                      !.documents = IF outcome = "docs" THEN <<"w1">> ELSE <<>>]
    ELSE IF outcome = "chunk"
    THEN [task EXCEPT !.status = "running", !.chunks = @ + 1,
                      !.pc = IF stream_in_real_time(task.adaptive, task.attempt,
                                                    MaxLoopRetries)
                             THEN "stream_token" ELSE "astream_next"]
    ELSE IF outcome = "end"
    THEN [task EXCEPT !.status = "running", !.pc = "after_generation"]
    ELSE [task EXCEPT !.status = "running",
                      !.pc = IF except_Exception("Exception") THEN "error_token"
                             ELSE "raised"]

\* the outcomes a backend call can have
AwaitOutcomes(task) ==
    IF task.pc \in {"retrieve", "web_search", "fallback"} THEN {"docs", "empty"}
    ELSE IF task.chunks = 0 THEN {"chunk", "end", "raise"}
    ELSE {"end", "raise"}

\* where the handler goes on after a `yield`
after_yield(task) ==
    IF task.pc = "stream_token" THEN "astream_next" ELSE "return"

\* the exception that a cancelled task finds at its suspension point
cancellation_at(task) ==
    IF task.status = "yielded" THEN "GeneratorExit" ELSE "CancelledError"

NoResult == [success |-> FALSE, summaries_created |-> -1, total_chunks |-> -1]

\* no ingestion is running: no documents, nothing upserted, nothing returned
NoIngestion ==
    [file_type |-> "", total_docs |-> 0, i |-> 0, successful_ingestions |-> 0,
     total_chunks |-> 0, upserts |-> <<>>, result |-> NoResult]

\* everything but the request, the servicer and the position
InitLocals ==
    /\ ingestion = NoIngestion
    /\ state = RAGState(request.prompt, <<>>, self.max_retries)
    /\ route = VECTORSTORE
    /\ docs = <<>>
    /\ relevant_docs = <<>>
    /\ attempt = -1
    /\ prompt = NoPrompt
    /\ full_response = <<>>
    /\ chunks = 0
    /\ replayed = 0
    /\ out = <<>>
    /\ calls = NoCalls
    /\ metrics = MetricsCollector
    /\ obs = NoObs
    /\ tasks = <<>>
    /\ process = NoProcess
    /\ threads = <<>>
    /\ limiter = NoLimiter

Init ==
    /\ request \in Requests
    /\ self \in Servicers
    /\ pc = IF request.rpc = "GenerateWithRAG" THEN "route" ELSE "stream"
    /\ InitLocals

-----------------------------------------------------------------------------
(* GenerateWithRAG *)

\* lines 537-542: routing
Route ==
    /\ pc = "route"
    /\ IF request.adaptive
       THEN \E classification \in RouterOutcomes :
                /\ route' = _route_query_with_llm(request.prompt, classification)
                /\ calls' = [calls EXCEPT !.router = @ + 1]
                /\ obs' = [obs EXCEPT !.classification = classification,
                                      !.raised = IF classification.kind = "returns"
                                                 THEN @ ELSE @ \cup {"routing"},
                                      !.route_changes = IF route' # state.route THEN @ + 1 ELSE @]
       ELSE /\ route' = _route_query(request.prompt)
            /\ obs' = [obs EXCEPT !.route_changes = IF route' # state.route THEN @ + 1 ELSE @]
            /\ UNCHANGED calls
    /\ state' = [state EXCEPT !.route = route']
    /\ pc' = "retrieve"
    /\ UNCHANGED <<tasks, process, threads, limiter, ingestion, request, self, docs, relevant_docs, attempt, prompt, full_response,
                   chunks, replayed, out, metrics>>

\* retrieval that goes back to the vector store when web search finds nothing
Retrieve_with_reverse_fallback ==
    /\ pc = "retrieve"
    /\ IF route = VECTORSTORE
       THEN \E search \in BackendOutcomes(VectorDocs) :
                /\ docs' = _retrieve_documents(self.vector_store, search)
                /\ calls' = [calls EXCEPT !.vector = @ + (IF self.vector_store THEN 1 ELSE 0)]
                /\ pc' = "grade_documents"
                /\ UNCHANGED <<state, obs>>
       ELSE \E search \in BackendOutcomes(WebDocs) :
                /\ docs' = _web_search_documents(self.web_search, search)
                /\ state' = [state EXCEPT !.documents = docs',
                                          !.route = IF docs' = <<>> THEN VECTORSTORE ELSE @]
                /\ calls' = [calls EXCEPT !.web = @ + (IF self.web_search THEN 1 ELSE 0)]
                /\ obs' = [obs EXCEPT !.web_results = docs',
                                      !.route_changes = IF docs' = <<>> THEN @ + 1 ELSE @]
                /\ pc' = "loop"
    /\ UNCHANGED <<tasks, process, threads, limiter, ingestion, request, self, route, relevant_docs, attempt, prompt, full_response,
                   chunks, replayed, out, metrics>>

\* retrieval that issues a failed vector search a second time
Retrieve_retrying ==
    /\ pc = "retrieve"
    /\ IF route = VECTORSTORE
       THEN \E search \in BackendOutcomes(VectorDocs) :
                /\ docs' = _retrieve_documents(self.vector_store, search)
                /\ calls' = [calls EXCEPT !.vector = @ + (IF ~self.vector_store THEN 0
                                                          ELSE IF search.raises THEN 2 ELSE 1)]
                /\ obs' = [obs EXCEPT !.raised = IF self.vector_store /\ search.raises
                                                 THEN @ \cup {"retrieval"} ELSE @,
                                      !.searches = Append(@, Searched("vector", self.vector_store,
                                                                      search, docs'))]
                /\ pc' = "grade_documents"
                /\ UNCHANGED state
       ELSE \E search \in BackendOutcomes(WebDocs) :
                /\ docs' = _web_search_documents(self.web_search, search)
                /\ state' = [state EXCEPT !.documents = docs']
                /\ calls' = [calls EXCEPT !.web = @ + (IF self.web_search THEN 1 ELSE 0)]
                /\ obs' = [obs EXCEPT !.web_results = docs',
                                      !.raised = IF self.web_search /\ search.raises
                                                 THEN @ \cup {"retrieval"} ELSE @,
                                      !.searches = Append(@, Searched("web", self.web_search,
                                                                      search, docs'))]
                /\ pc' = "loop"
    /\ UNCHANGED <<tasks, process, threads, limiter, ingestion, request, self, route, relevant_docs, attempt, prompt, full_response,
                   chunks, replayed, out, metrics>>

\* lines 545-546 and 558-560: retrieval for the route
Retrieve ==
    /\ pc = "retrieve"
    /\ IF route = VECTORSTORE
       THEN \E search \in BackendOutcomes(VectorDocs) :
                /\ docs' = _retrieve_documents(self.vector_store, search)
                /\ calls' = [calls EXCEPT !.vector = @ + (IF self.vector_store THEN 1 ELSE 0)]
                /\ obs' = [obs EXCEPT !.raised = IF self.vector_store /\ search.raises
                                                 THEN @ \cup {"retrieval"} ELSE @,
                                      !.searches = Append(@, Searched("vector", self.vector_store,
                                                                      search, docs'))]
                /\ pc' = "grade_documents"
                /\ UNCHANGED state
       ELSE IF route = WEB_SEARCH
       THEN \E search \in BackendOutcomes(WebDocs) :
                /\ docs' = _web_search_documents(self.web_search, search)
                /\ state' = [state EXCEPT !.documents = docs']
                /\ calls' = [calls EXCEPT !.web = @ + (IF self.web_search THEN 1 ELSE 0)]
                /\ obs' = [obs EXCEPT !.web_results = docs',
                                      !.raised = IF self.web_search /\ search.raises
                                                 THEN @ \cup {"retrieval"} ELSE @,
                                      !.searches = Append(@, Searched("web", self.web_search,
                                                                      search, docs'))]
                /\ pc' = "loop"
       ELSE /\ pc' = "loop"
            /\ UNCHANGED <<docs, state, calls, obs>>
    /\ UNCHANGED <<tasks, process, threads, limiter, ingestion, request, self, route, relevant_docs, attempt, prompt, full_response,
                   chunks, replayed, out, metrics>>

\* lines 548-549: relevance grading of the vector-store documents
GradeDocuments ==
    /\ pc = "grade_documents"
    /\ \E scores \in [1..Len(docs) -> GradeOutcomes] :
           /\ relevant_docs' = _grade_documents(docs, scores)
           /\ state' = [state EXCEPT !.documents = relevant_docs']
           /\ obs' = [obs EXCEPT !.raised = IF \E i \in 1..Len(docs) : scores[i] = "raises"
                                            THEN @ \cup {"grading"} ELSE @,
                                 !.scores = scores]
    /\ calls' = [calls EXCEPT !.grade_documents = @ + Len(docs)]
    /\ pc' = "fallback"
    /\ UNCHANGED <<tasks, process, threads, limiter, ingestion, request, self, route, docs, attempt, prompt, full_response, chunks,
                   replayed, out, metrics>>

\* lines 552-556: fallback to web search
Fallback ==
    /\ pc = "fallback"
    /\ IF should_fallback(relevant_docs, self.web_search, request.adaptive)
       THEN \E search \in BackendOutcomes(WebDocs) :
                LET web_docs == _web_search_documents(self.web_search, search) IN
                /\ state' = [state EXCEPT !.documents = web_docs, !.route = WEB_SEARCH]
                /\ calls' = [calls EXCEPT !.web = @ + (IF self.web_search THEN 1 ELSE 0)]
                /\ obs' = [obs EXCEPT !.fallbacks = @ + 1, !.web_results = web_docs,
                                      !.route_changes = IF state.route # WEB_SEARCH THEN @ + 1 ELSE @,
                                      !.raised = IF self.web_search /\ search.raises
                                                 THEN @ \cup {"retrieval"} ELSE @,
                                      !.searches = Append(@, Searched("web", self.web_search,
                                                                      search, web_docs))]
       ELSE UNCHANGED <<state, calls, obs>>
    /\ pc' = "loop"
    /\ UNCHANGED <<tasks, process, threads, limiter, ingestion, request, self, route, docs, relevant_docs, attempt, prompt,
                   full_response, chunks, replayed, out, metrics>>

\* a loop that adds the retrieved documents to the evidence again on a retry
LoopHead_appending ==
    /\ pc = "loop"
    /\ IF range_has_next(attempt, state.max_retries)
       THEN /\ attempt' = attempt + 1
            /\ state' = [state EXCEPT !.iteration = attempt' + 1,
                                      !.documents = IF attempt >= 0 /\ Len(@) \in 1..MaxDocs
                                                    THEN @ \o <<@[1]>> ELSE @]
            /\ prompt' = build_prompt(request.prompt, state'.documents)
            /\ full_response' = <<>>
            /\ chunks' = 0
            /\ calls' = [calls EXCEPT !.astream = @ + 1]
            /\ pc' = "astream"
       ELSE /\ pc' = "done"
            /\ UNCHANGED <<attempt, state, prompt, full_response, chunks, calls>>
    /\ UNCHANGED <<tasks, process, threads, limiter, ingestion, request, self, route, docs, relevant_docs, replayed, out, metrics, obs>>

\* lines 563-578: the next attempt of the loop, its prompt, and the start of astream
LoopHead ==
    /\ pc = "loop"
    /\ IF range_has_next(attempt, state.max_retries)
       THEN /\ attempt' = attempt + 1
            /\ state' = [state EXCEPT !.iteration = attempt' + 1]
            /\ prompt' = build_prompt(request.prompt, state.documents)
            /\ full_response' = <<>>
            /\ chunks' = 0
            /\ calls' = [calls EXCEPT !.astream = @ + 1]
            /\ pc' = "astream"
       ELSE /\ pc' = "done"
            /\ UNCHANGED <<attempt, state, prompt, full_response, chunks, calls>>
    /\ UNCHANGED <<tasks, process, threads, limiter, ingestion, request, self, route, docs, relevant_docs, replayed, out, metrics, obs>>

\* lines 578-585: one chunk of the stream
StreamChunk ==
    /\ pc = "astream"
    /\ chunks < MaxChunks
    /\ \E chunk \in Chunks :
           IF chunk.has_content /\ chunk.content # <<>>
           THEN /\ full_response' = full_response \o chunk.content
                /\ out' = IF stream_in_real_time(request.adaptive, attempt, state.max_retries)
                          THEN Append(out, Response(chunk.content, attempt))
                          ELSE out
           ELSE UNCHANGED <<full_response, out>>
    /\ chunks' = chunks + 1
    /\ UNCHANGED <<tasks, process, threads, limiter, ingestion, request, self, state, pc, route, docs, relevant_docs, attempt, prompt,
                   replayed, calls, metrics, obs>>

\* lines 587-590 and 602-604: the stream is exhausted
StreamEnd ==
    /\ pc = "astream"
    /\ state' = [state EXCEPT !.generation = full_response]
    /\ obs' = [obs EXCEPT !.empty_attempt = @ \/ full_response = <<>>]
    /\ pc' = IF should_grade(request.adaptive, state.documents, attempt, state.max_retries)
             THEN "grade_hallucinations"
             ELSE "done"
    /\ UNCHANGED <<tasks, process, threads, limiter, ingestion, request, self, route, docs, relevant_docs, attempt, prompt, full_response,
                   chunks, replayed, out, calls, metrics>>

\* lines 591-601: groundedness grading of the attempt
GradeHallucinations ==
    /\ pc = "grade_hallucinations"
    /\ \E score \in GradeOutcomes :
           LET is_grounded == _grade_hallucinations(state.documents, score) IN
           /\ obs' = [obs EXCEPT !.verdicts = Append(@, [attempt |-> attempt, score |-> score,
                                                         is_grounded |-> is_grounded]),
                                 !.raised = IF score = "raises" THEN @ \cup {"grading"} ELSE @]
           /\ IF is_grounded
              THEN IF attempt < state.max_retries - 1
                   THEN pc' = "replay" /\ replayed' = 0
                   ELSE pc' = "done" /\ UNCHANGED replayed
              ELSE pc' = "loop" /\ UNCHANGED replayed
    /\ calls' = [calls EXCEPT !.grade_hallucinations = @ + hallucination_grader_calls(state.documents)]
    /\ UNCHANGED <<tasks, process, threads, limiter, ingestion, request, self, state, route, docs, relevant_docs, attempt, prompt,
                   full_response, chunks, out, metrics>>

\* lines 596-598: `for token in full_response: yield ...`, then break
Replay ==
    /\ pc = "replay"
    /\ IF replayed < Len(full_response)
       THEN /\ out' = Append(out, Response(<<full_response[replayed + 1]>>, attempt))
            /\ replayed' = replayed + 1
            /\ UNCHANGED pc
       ELSE /\ pc' = "done"
            /\ UNCHANGED <<out, replayed>>
    /\ UNCHANGED <<tasks, process, threads, limiter, ingestion, request, self, state, route, docs, relevant_docs, attempt, prompt,
                   full_response, chunks, calls, metrics, obs>>

\* the handler without its `except` clause: the exception leaves the handler
HandleException_propagates ==
    /\ pc = "astream"
    /\ obs' = [obs EXCEPT !.raised = @ \cup {"generation"}]
    /\ pc' = "raised"
    /\ UNCHANGED <<tasks, process, threads, limiter, ingestion, request, self, state, route, docs, relevant_docs, attempt, prompt,
                   full_response, chunks, replayed, out, calls, metrics>>

\* lines 578 and 606-608: llm.astream raises, at its start or between two chunks
HandleException ==
    /\ pc = "astream"
    /\ out' = Append(out, ErrorResponse(attempt))
    /\ obs' = [obs EXCEPT !.raised = @ \cup {"generation"}, !.error = TRUE]
    /\ pc' = "done"
    /\ UNCHANGED <<tasks, process, threads, limiter, ingestion, request, self, state, route, docs, relevant_docs, attempt, prompt,
                   full_response, chunks, replayed, calls, metrics>>

-----------------------------------------------------------------------------
(* GenerateStream *)

\* lines 515-519
GenerateStreamChunk ==
    /\ pc = "stream"
    /\ chunks < MaxChunks
    /\ \E chunk \in Chunks :
           out' = IF chunk.has_content /\ chunk.content # <<>>
                  THEN Append(out, Response(chunk.content, attempt))
                  ELSE out
    /\ chunks' = chunks + 1
    /\ UNCHANGED <<tasks, process, threads, limiter, ingestion, request, self, state, pc, route, docs, relevant_docs, attempt, prompt,
                   full_response, replayed, calls, metrics, obs>>

\* line 515: the stream is exhausted
GenerateStreamEnd ==
    /\ pc = "stream"
    /\ pc' = "done"
    /\ UNCHANGED <<tasks, process, threads, limiter, ingestion, request, self, state, route, docs, relevant_docs, attempt, prompt,
                   full_response, chunks, replayed, out, calls, metrics, obs>>

\* lines 515 and 521-523: llm.astream raises
GenerateStreamException ==
    /\ pc = "stream"
    /\ out' = Append(out, ErrorResponse(attempt))
    /\ obs' = [obs EXCEPT !.raised = @ \cup {"generation"}, !.error = TRUE]
    /\ pc' = "done"
    /\ UNCHANGED <<tasks, process, threads, limiter, ingestion, request, self, state, route, docs, relevant_docs, attempt, prompt,
                   full_response, chunks, replayed, calls, metrics>>

-----------------------------------------------------------------------------

Next ==
    \/ Route
    \/ Retrieve
    \/ GradeDocuments
    \/ Fallback
    \/ LoopHead
    \/ StreamChunk
    \/ StreamEnd
    \/ GradeHallucinations
    \/ Replay
    \/ HandleException
    \/ GenerateStreamChunk
    \/ GenerateStreamEnd
    \/ GenerateStreamException

Spec == Init /\ [][Next]_vars

\* the event loop runs a handler whose backend call has returned
FairSpec == Spec /\ WF_vars(Next)

-----------------------------------------------------------------------------
(* The keyword router on its own: _route_query applied to every query of at   *)
(* most MaxQueryLen characters over RouterAlphabet, whatever the servicer's  *)
(* backends.                                                                 *)

DefaultMaxRetries == 3

RouterAlphabet == {"j", "o", "b", "J", "l", "u", "a^.", "A^.", "t"}

RouterQueries == UNION {[1..n -> RouterAlphabet] : n \in 0..MaxQueryLen}

InitRouter ==
    /\ request \in [rpc : {"_route_query"}, prompt : RouterQueries, adaptive : {FALSE}]
    /\ self \in [vector_store : BOOLEAN, web_search : BOOLEAN, max_retries : {DefaultMaxRetries}]
    /\ pc = "call"
    /\ InitLocals

RouteQueryCall ==
    /\ pc = "call"
    /\ route' = _route_query(request.prompt)
    /\ pc' = "returned"
    /\ UNCHANGED <<tasks, process, threads, limiter, ingestion, request, self, state, docs, relevant_docs, attempt, prompt, full_response,
                   chunks, replayed, out, calls, metrics, obs>>

NextRouter == RouteQueryCall

SpecRouter == InitRouter /\ [][NextRouter]_vars

-----------------------------------------------------------------------------
(* The graders on their own: _grade_documents applied to every sequence of   *)
(* at most MaxDocs documents, _grade_hallucinations to every such sequence   *)
(* and every generated text, for every outcome of each grading call.         *)

GraderDocs == {"d1", "d2"}

GeneratedTexts == { <<>>, <<"a", "b">> }

InitGraders ==
    /\ request \in [rpc : {"_grade_documents", "_grade_hallucinations"}, prompt : Queries,
                    adaptive : {TRUE}]
    /\ self \in [vector_store : {TRUE}, web_search : {TRUE}, max_retries : {DefaultMaxRetries}]
    /\ pc = "call"
    /\ docs \in DocSeqs(GraderDocs)
    /\ ingestion = NoIngestion
    /\ full_response \in IF request.rpc = "_grade_hallucinations" THEN GeneratedTexts ELSE {<<>>}
    /\ state = RAGState(request.prompt, <<>>, self.max_retries)
    /\ route = VECTORSTORE
    /\ relevant_docs = <<>>
    /\ attempt = -1
    /\ prompt = NoPrompt
    /\ chunks = 0
    /\ replayed = 0
    /\ out = <<>>
    /\ calls = NoCalls
    /\ metrics = MetricsCollector
    /\ obs = NoObs
    /\ tasks = <<>>
    /\ process = NoProcess
    /\ threads = <<>>
    /\ limiter = NoLimiter

\* lines 362-395: _grade_documents(question, documents)
GradeDocumentsCall ==
    /\ pc = "call"
    /\ request.rpc = "_grade_documents"
    /\ \E scores \in [1..Len(docs) -> GradeOutcomes] :
           /\ relevant_docs' = _grade_documents(docs, scores)
           /\ obs' = [obs EXCEPT !.raised = IF \E i \in 1..Len(docs) : scores[i] = "raises"
                                            THEN @ \cup {"grading"} ELSE @,
                                 !.scores = scores]
    /\ calls' = [calls EXCEPT !.grade_documents = @ + Len(docs)]
    /\ pc' = "returned"
    /\ UNCHANGED <<tasks, process, threads, limiter, ingestion, request, self, state, route, docs, attempt, prompt, full_response, chunks,
                   replayed, out, metrics>>

\* lines 397-425: _grade_hallucinations(generation, documents); `score` is what
\* the grading call does if it is made
GradeHallucinationsCall ==
    /\ pc = "call"
    /\ request.rpc = "_grade_hallucinations"
    /\ \E score \in GradeOutcomes :
           LET is_grounded == _grade_hallucinations(docs, score)
               asked == hallucination_grader_calls(docs) > 0 IN
           /\ obs' = [obs EXCEPT !.verdicts = Append(@, [attempt |-> attempt,
                                                         score |-> IF asked THEN score ELSE "not_called",
                                                         is_grounded |-> is_grounded]),
                                 !.raised = IF asked /\ score = "raises"
                                            THEN @ \cup {"grading"} ELSE @]
    /\ calls' = [calls EXCEPT !.grade_hallucinations = @ + hallucination_grader_calls(docs)]
    /\ pc' = "returned"
    /\ UNCHANGED <<tasks, process, threads, limiter, ingestion, request, self, state, route, docs, relevant_docs, attempt, prompt,
                   full_response, chunks, replayed, out, metrics>>

NextGraders ==
    \/ GradeDocumentsCall
    \/ GradeHallucinationsCall

SpecGraders == InitGraders /\ [][NextGraders]_vars

-----------------------------------------------------------------------------
(* Bulk ingestion: ingest_vietnamese_university_data from the point where the *)
(* file has been loaded into `documents` (lines 944-1025).  The documents    *)
(* are numbered 1..total_docs in the order of the list; a batch is the       *)
(* range of numbers it holds.  An upsert (add_documents) succeeds or raises. *)

batch_size == 100

Min(a, b) == IF a <= b THEN a ELSE b

\* documents[i:i + batch_size]
batch_of(i, total_docs) ==
    [first |-> i + 1, last |-> Min(i + batch_size, total_docs)]

\* len(batch)
batch_len(batch) == batch.last - batch.first + 1

InitIngest ==
    /\ request \in [rpc : {"ingest_vietnamese_university_data"}, prompt : {<<>>},
                    adaptive : {FALSE}]
    /\ self \in [vector_store : BOOLEAN, web_search : {FALSE}, max_retries : {DefaultMaxRetries}]
    /\ pc = "ingest"
    /\ state = RAGState(request.prompt, <<>>, self.max_retries)
    /\ route = VECTORSTORE
    /\ docs = <<>>
    /\ relevant_docs = <<>>
    /\ attempt = -1
    /\ prompt = NoPrompt
    /\ full_response = <<>>
    /\ chunks = 0
    /\ replayed = 0
    /\ out = <<>>
    /\ calls = NoCalls
    /\ metrics = MetricsCollector
    /\ obs = NoObs
    /\ tasks = <<>>
    /\ process = NoProcess
    /\ threads = <<>>
    /\ limiter = NoLimiter
    /\ \E file_type \in {"json", "pdf"}, total_docs \in 0..MaxIngestDocs :
           ingestion = [NoIngestion EXCEPT !.file_type = file_type, !.total_docs = total_docs]

\* lines 944-974 and 1017-1025: nothing to store, no store to write to (the
\* ValueError is caught by the outer handler), or the start of the loop
IngestStart ==
    /\ pc = "ingest"
    /\ IF ingestion.total_docs = 0
       THEN /\ pc' = "ingest_return"
            /\ UNCHANGED ingestion
       ELSE IF ~self.vector_store
       THEN /\ pc' = "returned"
            /\ ingestion' = [ingestion EXCEPT !.total_chunks = ingestion.total_docs,
                                              !.result = [success |-> FALSE, summaries_created |-> 0,
                                                          total_chunks |-> 0]]
       ELSE /\ pc' = "ingest_loop"
            /\ ingestion' = [ingestion EXCEPT !.total_chunks = ingestion.total_docs,
                                              !.i = 0, !.successful_ingestions = 0]
    /\ UNCHANGED <<tasks, process, threads, limiter, request, self, state, route, docs, relevant_docs, attempt, prompt,
                   full_response, chunks, replayed, out, calls, metrics, obs>>

\* a loop that gives up at the first batch that fails
IngestBatch_aborting ==
    /\ pc = "ingest_loop"
    /\ ingestion.i < ingestion.total_docs
    /\ \E ok \in BOOLEAN :
           LET batch == batch_of(ingestion.i, ingestion.total_docs) IN
           /\ ingestion' = [ingestion EXCEPT
                   !.upserts = Append(@, [first |-> batch.first, last |-> batch.last, ok |-> ok]),
                   !.successful_ingestions = IF ok THEN @ + batch_len(batch) ELSE @,
                   !.i = @ + batch_size]
           /\ pc' = IF ok THEN "ingest_loop" ELSE "ingest_return"
    /\ UNCHANGED <<tasks, process, threads, limiter, request, self, state, route, docs, relevant_docs, attempt, prompt,
                   full_response, chunks, replayed, out, calls, metrics, obs>>

\* lines 976-1000: one pass of `for i in range(0, total_docs, batch_size)`
IngestBatch ==
    /\ pc = "ingest_loop"
    /\ ingestion.i < ingestion.total_docs
    /\ \E ok \in BOOLEAN :
           LET batch == batch_of(ingestion.i, ingestion.total_docs) IN
           ingestion' = [ingestion EXCEPT
               !.upserts = Append(@, [first |-> batch.first, last |-> batch.last, ok |-> ok]),
               !.successful_ingestions = IF ok THEN @ + batch_len(batch) ELSE @,
               !.i = @ + batch_size]
    /\ UNCHANGED <<tasks, process, threads, limiter, request, self, state, pc, route, docs, relevant_docs, attempt, prompt,
                   full_response, chunks, replayed, out, calls, metrics, obs>>

\* lines 976 and 1002-1007: the range is exhausted
IngestLoopEnd ==
    /\ pc = "ingest_loop"
    /\ ingestion.i >= ingestion.total_docs
    /\ ingestion' = [ingestion EXCEPT
           !.total_chunks = IF ingestion.file_type = "json"
                            THEN ingestion.successful_ingestions ELSE @]
    /\ pc' = "ingest_return"
    /\ UNCHANGED <<tasks, process, threads, limiter, request, self, state, route, docs, relevant_docs, attempt, prompt,
                   full_response, chunks, replayed, out, calls, metrics, obs>>

\* lines 1009-1015: the result
IngestReturn ==
    /\ pc = "ingest_return"
    /\ ingestion' = [ingestion EXCEPT
           !.result = [success |-> TRUE,
                       summaries_created |-> IF ingestion.file_type = "json"
                                             THEN ingestion.successful_ingestions ELSE 0,
                       total_chunks |-> ingestion.total_chunks]]
    /\ pc' = "returned"
    /\ UNCHANGED <<tasks, process, threads, limiter, request, self, state, route, docs, relevant_docs, attempt, prompt,
                   full_response, chunks, replayed, out, calls, metrics, obs>>

NextIngest ==
    \/ IngestStart
    \/ IngestBatch
    \/ IngestLoopEnd
    \/ IngestReturn

SpecIngest == InitIngest /\ [][NextIngest]_vars

-----------------------------------------------------------------------------
(* The SecurityManager on its own: calls of RateLimiter.is_allowed and of    *)
(* SecurityManager.validate_request, for any client, any API key and any     *)
(* value of the clock, on a limiter constructed with max_requests in         *)
(* 0..MaxRateLimit and window_seconds in 1..MaxWindowSeconds.  At most       *)
(* MaxAllowed requests are allowed in a behaviour.                           *)

RECURSIVE GrantedBetween(_, _, _)
\* the requests of the client allowed so far with a timestamp in lo..hi
GrantedBetween(client_id, lo, hi) ==
    IF lo > hi THEN 0
    ELSE (IF lo \in Timestamps THEN limiter.granted[client_id][lo] ELSE 0)
         + GrantedBetween(client_id, lo + 1, hi)

TotalGranted == GrantedBetween("c1", 0, MaxClock) + GrantedBetween("c2", 0, MaxClock)

InitRateLimiter ==
    /\ request \in [rpc : {"validate_request"}, prompt : {<<>>}, adaptive : {FALSE}]
    /\ self \in [vector_store : {FALSE}, web_search : {FALSE}, max_retries : {DefaultMaxRetries}]
    /\ pc = "serving"
    /\ state = RAGState(request.prompt, <<>>, self.max_retries)
    /\ route = VECTORSTORE
    /\ docs = <<>>
    /\ relevant_docs = <<>>
    /\ attempt = -1
    /\ prompt = NoPrompt
    /\ full_response = <<>>
    /\ chunks = 0
    /\ replayed = 0
    /\ out = <<>>
    /\ calls = NoCalls
    /\ metrics = MetricsCollector
    /\ obs = NoObs
    /\ tasks = <<>>
    /\ process = NoProcess
    /\ threads = <<>>
    /\ ingestion = NoIngestion
    /\ \E max_requests \in 0..MaxRateLimit, window_seconds \in 1..MaxWindowSeconds :
           limiter = RateLimiter(max_requests, window_seconds)

\* the limiter after is_allowed(client_id) has run at clock value `now`
after_is_allowed(op, client_id, now) ==
    LET r == is_allowed(limiter, client_id, now) IN
    [limiter EXCEPT !.requests = r.requests,
                    !.granted[client_id][now] = IF r.allowed THEN @ + 1 ELSE @,
                    !.last = [op |-> op, client_id |-> client_id, now |-> now,
                              key_ok |-> TRUE, result |-> r.allowed]]

\* security.py lines 185-214 (and check_rate_limit, lines 338-347)
IsAllowedCall ==
    /\ pc = "serving"
    /\ \E client_id \in Clients, now \in Timestamps :
           /\ limiter' = after_is_allowed("is_allowed", client_id, now)
           /\ limiter'.last.result => TotalGranted < MaxAllowed
    /\ UNCHANGED <<tasks, process, threads, ingestion, request, self, state, pc, route, docs, relevant_docs, attempt,
                   prompt, full_response, chunks, replayed, out, calls, metrics, obs>>

\* a validate_request that asks the rate limiter before it looks at the key
ValidateRequestCall_limit_first ==
    /\ pc = "serving"
    /\ \E api_key \in ApiKeys, client_id \in Clients, now \in Timestamps :
           LET after == after_is_allowed("validate_request", client_id, now) IN
           /\ limiter' = [after EXCEPT !.last.key_ok = validate_api_key(api_key),
                                       !.last.result = @ /\ validate_api_key(api_key)]
           /\ after.last.result => TotalGranted < MaxAllowed
    /\ UNCHANGED <<tasks, process, threads, ingestion, request, self, state, pc, route, docs, relevant_docs, attempt,
                   prompt, full_response, chunks, replayed, out, calls, metrics, obs>>

\* security.py lines 307-325
ValidateRequestCall ==
    /\ pc = "serving"
    /\ \E api_key \in ApiKeys, client_id \in Clients, now \in Timestamps :
           IF ~validate_api_key(api_key)
           THEN limiter' = [limiter EXCEPT !.last = [op |-> "validate_request",
                                                    client_id |-> client_id, now |-> now,
                                                    key_ok |-> FALSE, result |-> FALSE]]
           ELSE /\ limiter' = after_is_allowed("validate_request", client_id, now)
                /\ limiter'.last.result => TotalGranted < MaxAllowed
    /\ UNCHANGED <<tasks, process, threads, ingestion, request, self, state, pc, route, docs, relevant_docs, attempt,
                   prompt, full_response, chunks, replayed, out, calls, metrics, obs>>

NextRateLimiter ==
    \/ IsAllowedCall
    \/ ValidateRequestCall

SpecRateLimiter == InitRateLimiter /\ [][NextRateLimiter]_vars

-----------------------------------------------------------------------------

-----------------------------------------------------------------------------
(* The MetricsCollector under concurrent callers: every thread makes one     *)
(* call, and the threads' steps interleave in any order.                     *)

InitMetrics ==
    /\ request \in [rpc : {"metrics"}, prompt : {<<>>}, adaptive : {FALSE}]
    /\ self \in [vector_store : {FALSE}, web_search : {FALSE}, max_retries : {DefaultMaxRetries}]
    /\ pc = "serving"
    /\ state = RAGState(request.prompt, <<>>, self.max_retries)
    /\ route = VECTORSTORE
    /\ docs = <<>>
    /\ relevant_docs = <<>>
    /\ attempt = -1
    /\ prompt = NoPrompt
    /\ full_response = <<>>
    /\ chunks = 0
    /\ replayed = 0
    /\ out = <<>>
    /\ calls = NoCalls
    /\ metrics = MetricsCollector
    /\ obs = NoObs
    /\ tasks = <<>>
    /\ process = NoProcess
    /\ ingestion = NoIngestion
    /\ limiter = NoLimiter
    /\ threads \in [Threads -> ThreadStarts]

\* the positions at which `x += 1` reads x, and at which it stores the sum
ReadsCounter == {"read_total_requests", "read_total_errors", "read_agg_total",
                 "read_agg_outcome"}

WritesCounter == {"write_total_requests", "write_total_errors", "write_agg_total",
                  "write_agg_outcome"}

\* the field of its bucket that a request counts its outcome in
outcome_field(th) == IF th.success THEN "successful_requests" ELSE "failed_requests"

\* the value of the counter that the thread is about to read
counter_value(th) ==
    IF th.pc = "read_total_requests" THEN metrics.total_requests
    ELSE IF th.pc = "read_total_errors" THEN metrics.total_errors
    ELSE IF th.pc = "read_agg_total" THEN metrics.aggregated_metrics[th.bucket].total_requests
    ELSE metrics.aggregated_metrics[th.bucket][outcome_field(th)]

\* the collector once the thread has stored the value v in its counter
counter_written(th, v) ==
    IF th.pc = "write_total_requests" THEN [metrics EXCEPT !.total_requests = v]
    ELSE IF th.pc = "write_total_errors" THEN [metrics EXCEPT !.total_errors = v]
    ELSE IF th.pc = "write_agg_total"
         THEN [metrics EXCEPT !.aggregated_metrics[th.bucket].total_requests = v]
    ELSE [metrics EXCEPT !.aggregated_metrics[th.bucket][outcome_field(th)] = v]

\* the position after a read or a store of a counter
after_counter(th) ==
    IF th.pc = "read_total_requests" THEN "write_total_requests"
    ELSE IF th.pc = "write_total_requests"
         THEN IF th.success THEN "get_agg" ELSE "read_total_errors"
    ELSE IF th.pc = "read_total_errors" THEN "write_total_errors"
    ELSE IF th.pc = "write_total_errors" THEN "get_agg"
    ELSE IF th.pc = "read_agg_total" THEN "write_agg_total"
    ELSE IF th.pc = "write_agg_total" THEN "read_agg_outcome"
    ELSE IF th.pc = "read_agg_outcome" THEN "write_agg_outcome"
    ELSE "clean"

\* `with self.lock:` on entry, when the lock is free
AcquireLock_unguarded ==
    \E t \in Threads :
        /\ threads[t].pc \in WaitsForLock
        /\ metrics' = [metrics EXCEPT !.lock = t]
        /\ threads' = [threads EXCEPT ![t].pc = after_acquire(threads[t])]
    /\ UNCHANGED <<tasks, process, limiter, ingestion, request, self, state, pc, route, docs, relevant_docs,
                   attempt, prompt, full_response, chunks, replayed, out, calls, obs>>

AcquireLock ==
    \E t \in Threads :
        /\ threads[t].pc \in WaitsForLock
        /\ metrics.lock = 0
        /\ metrics' = [metrics EXCEPT !.lock = t]
        /\ threads' = [threads EXCEPT ![t].pc = after_acquire(threads[t])]
    /\ UNCHANGED <<tasks, process, limiter, ingestion, request, self, state, pc, route, docs, relevant_docs,
                   attempt, prompt, full_response, chunks, replayed, out, calls, obs>>

\* the end of a `with self.lock:` block
ReleaseLock ==
    \E t \in Threads :
        /\ threads[t].pc \in LeavesLock
        /\ metrics' = [metrics EXCEPT !.lock = 0]
        /\ threads' = [threads EXCEPT ![t].pc = after_release(threads[t])]
    /\ UNCHANGED <<tasks, process, limiter, ingestion, request, self, state, pc, route, docs, relevant_docs,
                   attempt, prompt, full_response, chunks, replayed, out, calls, obs>>

\* record_request: self.metrics_history.append(metrics)
AppendHistory ==
    \E t \in Threads :
        /\ threads[t].pc = "append"
        /\ metrics' = [metrics EXCEPT !.metrics_history = Append(@, t)]
        /\ threads' = [threads EXCEPT ![t].pc = "read_total_requests"]
    /\ UNCHANGED <<tasks, process, limiter, ingestion, request, self, state, pc, route, docs, relevant_docs,
                   attempt, prompt, full_response, chunks, replayed, out, calls, obs>>

\* the read of `x += 1`
ReadCounter ==
    \E t \in Threads :
        /\ threads[t].pc \in ReadsCounter
        /\ threads' = [threads EXCEPT ![t].tmp = counter_value(threads[t]),
                                      ![t].pc = after_counter(threads[t])]
        /\ UNCHANGED metrics
    /\ UNCHANGED <<tasks, process, limiter, ingestion, request, self, state, pc, route, docs, relevant_docs,
                   attempt, prompt, full_response, chunks, replayed, out, calls, obs>>

\* the store of `x += 1`
WriteCounter ==
    \E t \in Threads :
        /\ threads[t].pc \in WritesCounter
        /\ metrics' = counter_written(threads[t], threads[t].tmp + 1)
        /\ threads' = [threads EXCEPT ![t].pc = after_counter(threads[t])]
    /\ UNCHANGED <<tasks, process, limiter, ingestion, request, self, state, pc, route, docs, relevant_docs,
                   attempt, prompt, full_response, chunks, replayed, out, calls, obs>>

\* _update_aggregated_metrics: the bucket of the request, created when absent
GetAggregated ==
    \E t \in Threads :
        /\ threads[t].pc = "get_agg"
        /\ metrics' = IF metrics.aggregated_metrics[threads[t].bucket].present
                      THEN metrics
                      ELSE [metrics EXCEPT !.aggregated_metrics[threads[t].bucket] =
                                               AggregatedMetrics]
        /\ threads' = [threads EXCEPT ![t].pc = "read_agg_total"]
    /\ UNCHANGED <<tasks, process, limiter, ingestion, request, self, state, pc, route, docs, relevant_docs,
                   attempt, prompt, full_response, chunks, replayed, out, calls, obs>>

\* _update_aggregated_metrics: the buckets older than a day are deleted; the
\* bucket of the request is of this minute, and stays
CleanOldBuckets ==
    \E t \in Threads :
        /\ threads[t].pc = "clean"
        /\ \E old \in SUBSET (Buckets \ {threads[t].bucket}) :
               metrics' = [metrics EXCEPT !.aggregated_metrics =
                              [b \in Buckets |-> IF b \in old THEN NoBucket ELSE @[b]]]
        /\ threads' = [threads EXCEPT ![t].pc = "unlock"]
    /\ UNCHANGED <<tasks, process, limiter, ingestion, request, self, state, pc, route, docs, relevant_docs,
                   attempt, prompt, full_response, chunks, replayed, out, calls, obs>>

\* get_current_stats and get_recent_metrics: the reads inside the lock
ReadUnderLock ==
    \E t \in Threads :
        /\ threads[t].pc \in {"stats", "recent", "export_stats", "export_recent"}
        /\ threads' = [threads EXCEPT
               ![t].tmp = metrics.total_requests,
               ![t].pc = IF threads[t].pc = "export_stats" THEN "export_stats_unlock"
                         ELSE IF threads[t].pc = "export_recent" THEN "export_recent_unlock"
                         ELSE "unlock"]
        /\ UNCHANGED metrics
    /\ UNCHANGED <<tasks, process, limiter, ingestion, request, self, state, pc, route, docs, relevant_docs,
                   attempt, prompt, full_response, chunks, replayed, out, calls, obs>>

NextMetrics ==
    \/ AcquireLock
    \/ ReleaseLock
    \/ AppendHistory
    \/ ReadCounter
    \/ WriteCounter
    \/ GetAggregated
    \/ CleanOldBuckets
    \/ ReadUnderLock

SpecMetrics == InitMetrics /\ [][NextMetrics]_vars

\* the threads are scheduled: a step that can be taken is taken
FairSpecMetrics == SpecMetrics /\ WF_vars(NextMetrics)

-----------------------------------------------------------------------------
(* The life of the process: main() constructs and registers one LLMServicer, *)
(* then gRPC requests and admin HTTP requests are handled in any order.      *)

InitProcess ==
    /\ request \in [rpc : {"process"}, prompt : {<<>>}, adaptive : {FALSE}]
    /\ self \in [vector_store : {FALSE}, web_search : {FALSE}, max_retries : {DefaultMaxRetries}]
    /\ pc = "serving"
    /\ state = RAGState(request.prompt, <<>>, self.max_retries)
    /\ route = VECTORSTORE
    /\ docs = <<>>
    /\ relevant_docs = <<>>
    /\ attempt = -1
    /\ prompt = NoPrompt
    /\ full_response = <<>>
    /\ chunks = 0
    /\ replayed = 0
    /\ out = <<>>
    /\ calls = NoCalls
    /\ metrics = MetricsCollector
    /\ obs = NoObs
    /\ tasks = <<>>
    /\ ingestion = NoIngestion
    /\ limiter = NoLimiter
    /\ threads = <<>>
    /\ \E config \in Configs : process = [NoProcess EXCEPT !.config = config]

\* the process once a handler or main has run `LLMServicer()`
constructed(created_by, index_ok) ==
    [process EXCEPT !.servicers =
        Append(@, LLMServicer(process.config, created_by, index_ok))]

\* main(): llm_service = LLMServicer(), registered with the gRPC server
Main ==
    /\ ~process.started
    /\ \E index_ok \in BOOLEAN :
           process' = [constructed("main", index_ok) EXCEPT !.started = TRUE,
                                                             !.registered = 1]
    /\ UNCHANGED <<tasks, threads, limiter, ingestion, request, self, state, pc, route, docs,
                   relevant_docs, attempt, prompt, full_response, chunks, replayed, out, calls,
                   metrics, obs>>

\* a gRPC handler runs on the registered servicer and reads its handles
GrpcHandler ==
    /\ process.started
    /\ process.grpc_requests < MaxHandlerCalls
    /\ process' = [process EXCEPT !.grpc_requests = @ + 1]
    /\ UNCHANGED <<tasks, threads, limiter, ingestion, request, self, state, pc, route, docs,
                   relevant_docs, attempt, prompt, full_response, chunks, replayed, out, calls,
                   metrics, obs>>

\* POST /admin/test: llm_service = LLMServicer()
test_query ==
    /\ process.started
    /\ process.config.enable_admin_api
    /\ process.admin_requests < MaxHandlerCalls
    /\ \E index_ok \in BOOLEAN :
           process' = [constructed("test_query", index_ok) EXCEPT !.admin_requests = @ + 1]
    /\ UNCHANGED <<tasks, threads, limiter, ingestion, request, self, state, pc, route, docs,
                   relevant_docs, attempt, prompt, full_response, chunks, replayed, out, calls,
                   metrics, obs>>

\* POST /admin/ingest: llm_service = LLMServicer()
ingest_documents ==
    /\ process.started
    /\ process.config.enable_admin_api
    /\ process.admin_requests < MaxHandlerCalls
    /\ \E index_ok \in BOOLEAN :
           process' = [constructed("ingest_documents", index_ok)
                          EXCEPT !.admin_requests = @ + 1]
    /\ UNCHANGED <<tasks, threads, limiter, ingestion, request, self, state, pc, route, docs,
                   relevant_docs, attempt, prompt, full_response, chunks, replayed, out, calls,
                   metrics, obs>>

NextProcess ==
    \/ Main
    \/ GrpcHandler
    \/ test_query
    \/ ingest_documents

SpecProcess == InitProcess /\ [][NextProcess]_vars

-----------------------------------------------------------------------------
(* Two GenerateWithRAG requests on one event loop, and their cancellation.   *)

InitLoop ==
    /\ request \in [rpc : {"GenerateWithRAG"}, prompt : {<<>>}, adaptive : {FALSE}]
    /\ self \in [vector_store : {TRUE}, web_search : {FALSE}, max_retries : {MaxLoopRetries}]
    /\ pc = "serving"
    /\ state = RAGState(request.prompt, <<>>, self.max_retries)
    /\ route = VECTORSTORE
    /\ docs = <<>>
    /\ relevant_docs = <<>>
    /\ attempt = -1
    /\ prompt = NoPrompt
    /\ full_response = <<>>
    /\ chunks = 0
    /\ replayed = 0
    /\ out = <<>>
    /\ calls = NoCalls
    /\ metrics = MetricsCollector
    /\ obs = NoObs
    /\ ingestion = NoIngestion
    /\ limiter = NoLimiter
    /\ threads = <<>>
    /\ process = NoProcess
    /\ \E web_search \in BOOLEAN :
           tasks \in [Tasks -> { NewTask(adaptive, web_search) : adaptive \in BOOLEAN }]

\* the task that has the event loop's thread, if any
Running == { t \in Tasks : tasks[t].status \in {"running", "calling"} }

LoopFree == Running = {}

\* the event loop runs a task that is ready: a new one, or one suspended at
\* an `await` whose call has an outcome, or at a `yield`.  A cancelled task
\* finds the cancellation there instead, which `except Exception` lets pass.
Resume ==
    \E t \in Tasks :
        /\ LoopFree
        /\ tasks[t].status \in {"ready", "awaiting", "yielded"}
        /\ IF tasks[t].must_cancel
           THEN tasks' = [tasks EXCEPT ![t] =
                    IF @.status # "ready" /\ except_Exception(cancellation_at(@))
                    THEN [@ EXCEPT !.status = "running", !.pc = "error_token"]
                    ELSE [@ EXCEPT !.status = "done", !.pc = "cancelled"]]
           ELSE IF tasks[t].status = "ready"
           THEN tasks' = [tasks EXCEPT ![t].status = "running"]
           ELSE IF tasks[t].status = "yielded"
           THEN tasks' = [tasks EXCEPT ![t].status = "running",
                                       ![t].pc = after_yield(tasks[t])]
           ELSE \E outcome \in AwaitOutcomes(tasks[t]) :
                    tasks' = [tasks EXCEPT ![t] = after_await(@, outcome)]
        /\ UNCHANGED <<process, threads, limiter, ingestion, request, self, state, pc, route,
                       docs, relevant_docs, attempt, prompt, full_response, chunks, replayed,
                       out, calls, metrics, obs>>

\* the steps of the handler between its backend calls
Local ==
    \E t \in Tasks :
        /\ tasks[t].status = "running"
        /\ \/ /\ tasks[t].pc = "start"
              /\ IF tasks[t].adaptive
                 THEN tasks' = [tasks EXCEPT ![t].pc = "route_llm"]
                 ELSE \E r \in QueryRoute : tasks' = [tasks EXCEPT ![t].pc = after_route(r)]
           \/ /\ tasks[t].pc = "web_search"
              /\ ~tasks[t].web_search
              /\ tasks' = [tasks EXCEPT ![t].pc = "loop"]
           \/ /\ tasks[t].pc = "loop"
              /\ tasks' = [tasks EXCEPT ![t].pc =
                     IF tasks[t].attempt < MaxLoopRetries THEN "astream" ELSE "return"]
           \/ /\ tasks[t].pc = "after_generation"
              /\ tasks' = [tasks EXCEPT ![t].pc =
                     IF should_grade(tasks[t].adaptive, tasks[t].documents, tasks[t].attempt,
                                     MaxLoopRetries)
                     THEN "grade_hallucinations" ELSE "return"]
        /\ UNCHANGED <<process, threads, limiter, ingestion, request, self, state, pc, route,
                       docs, relevant_docs, attempt, prompt, full_response, chunks, replayed,
                       out, calls, metrics, obs>>

\* `await` of a backend call: the call starts and the task leaves the loop
StartAwait ==
    \E t \in Tasks :
        /\ tasks[t].status = "running"
        /\ tasks[t].pc \in AwaitedOps
        /\ tasks[t].pc = "web_search" => tasks[t].web_search
        /\ tasks' = [tasks EXCEPT ![t].status = "awaiting",
                                  ![t].calls = IF tasks[t].pc = "astream_next" THEN @ ELSE @ + 1]
        /\ UNCHANGED <<process, threads, limiter, ingestion, request, self, state, pc, route,
                       docs, relevant_docs, attempt, prompt, full_response, chunks, replayed,
                       out, calls, metrics, obs>>

\* a plain call of `.invoke`: the call starts and the task keeps the loop
SyncCall ==
    \E t \in Tasks :
        /\ tasks[t].status = "running"
        /\ tasks[t].pc \in SyncOps
        /\ tasks' = [tasks EXCEPT ![t].status = "calling", ![t].calls = @ + 1]
        /\ UNCHANGED <<process, threads, limiter, ingestion, request, self, state, pc, route,
                       docs, relevant_docs, attempt, prompt, full_response, chunks, replayed,
                       out, calls, metrics, obs>>

\* the answer of the backend to a plain call
SyncReturn ==
    \E t \in Tasks :
        /\ tasks[t].status = "calling"
        /\ \/ /\ tasks[t].pc = "route_llm"
              /\ \E r \in QueryRoute :
                     tasks' = [tasks EXCEPT ![t].status = "running", ![t].pc = after_route(r)]
           \/ /\ tasks[t].pc = "grade_documents"
              /\ \E relevant \in {<<>>, <<"d1">>} :
                     tasks' = [tasks EXCEPT ![t].status = "running",
                                           ![t].documents = relevant,
                                           ![t].pc = after_grade(tasks[t], relevant)]
           \/ /\ tasks[t].pc = "grade_hallucinations"
              /\ \E is_grounded \in BOOLEAN :
                     tasks' = [tasks EXCEPT ![t] =
                        IF is_grounded
                        THEN [@ EXCEPT !.status = "running",
                                       !.pc = IF tasks[t].chunks > 0 THEN "replay" ELSE "return"]
                        ELSE [@ EXCEPT !.status = "running", !.pc = "loop",
                                       !.attempt = @ + 1, !.chunks = 0]]
        /\ UNCHANGED <<process, threads, limiter, ingestion, request, self, state, pc, route,
                       docs, relevant_docs, attempt, prompt, full_response, chunks, replayed,
                       out, calls, metrics, obs>>

\* `yield`: the token goes to the caller and the task leaves the loop
Yield ==
    \E t \in Tasks :
        /\ tasks[t].status = "running"
        /\ tasks[t].pc \in YieldPoints
        /\ tasks' = [tasks EXCEPT ![t].status = "yielded", ![t].tokens = @ + 1]
        /\ UNCHANGED <<process, threads, limiter, ingestion, request, self, state, pc, route,
                       docs, relevant_docs, attempt, prompt, full_response, chunks, replayed,
                       out, calls, metrics, obs>>

\* the end of the handler
Return ==
    \E t \in Tasks :
        /\ tasks[t].status = "running"
        /\ tasks[t].pc \in {"return", "raised"}
        /\ tasks' = [tasks EXCEPT ![t].status = "done"]
        /\ UNCHANGED <<process, threads, limiter, ingestion, request, self, state, pc, route,
                       docs, relevant_docs, attempt, prompt, full_response, chunks, replayed,
                       out, calls, metrics, obs>>

\* the request is cancelled: the server, on the event loop, cancels its task
TaskCancel ==
    \E t \in Tasks :
        /\ LoopFree
        /\ tasks[t].status # "done"
        /\ ~tasks[t].must_cancel
        /\ tasks' = [tasks EXCEPT ![t].must_cancel = TRUE]
        /\ UNCHANGED <<process, threads, limiter, ingestion, request, self, state, pc, route,
                       docs, relevant_docs, attempt, prompt, full_response, chunks, replayed,
                       out, calls, metrics, obs>>

NextLoop ==
    \/ Resume
    \/ Local
    \/ StartAwait
    \/ SyncCall
    \/ SyncReturn
    \/ Yield
    \/ Return
    \/ TaskCancel

SpecLoop == InitLoop /\ [][NextLoop]_vars

TypeOK ==
    /\ pc \in {"route", "retrieve", "grade_documents", "fallback", "loop", "astream",
              "grade_hallucinations", "replay", "stream", "done", "call", "returned",
              "ingest", "ingest_loop", "ingest_return", "serving"}
    /\ state.route \in QueryRoute
    /\ attempt \in -1..MaxRetriesBound

-----------------------------------------------------------------------------
(* Properties *)

\* the text delivered to the caller: the tokens of `out` that are not the
\* handler's error token, concatenated
RECURSIVE DeliveredFrom(_)
DeliveredFrom(i) ==
    IF i > Len(out) THEN <<>>
    ELSE IF out[i].error THEN DeliveredFrom(i + 1)
    ELSE out[i].token \o DeliveredFrom(i + 1)

Delivered == DeliveredFrom(1)

ErrorTokens == {i \in 1..Len(out) : out[i].error}

IsRAG == request.rpc = "GenerateWithRAG"

\* C1: a GenerateWithRAG request that has made a generation attempt, each of
\* them producing a token, ends having delivered the whole last answer or an
\* error token, never nothing.
C1_NeverSilentlyEmpty ==
    (IsRAG /\ pc = "done" /\ state.iteration >= 1 /\ ~obs.empty_attempt) =>
        /\ out # <<>>
        /\ out[Len(out)].error \/ Delivered = state.generation

\* C2: state.iteration never decreases, grows by exactly one with every
\* generation attempt and with nothing else, never exceeds max_retries, so at
\* most max_retries attempts are made, and the request terminates.
C2_IterationBounded ==
    /\ [](IsRAG => state.iteration <= state.max_retries /\ calls.astream <= state.max_retries)
    /\ [][IsRAG =>
            /\ state'.iteration >= state.iteration
            /\ (calls'.astream # calls.astream) =>
                  (calls'.astream = calls.astream + 1 /\ state'.iteration = state.iteration + 1)
            /\ (state'.iteration # state.iteration) => calls'.astream = calls.astream + 1]_vars
    /\ <>(pc = "done")

\* the retry budget of three was used up, after a not-grounded verdict and more
C2_Witness ==
    /\ IsRAG /\ pc = "done"
    /\ state.max_retries = 3 /\ state.iteration = 3
    /\ Len(obs.verdicts) = 2

\* the attempt was graded and judged not grounded
Rejected(att) ==
    \E k \in 1..Len(obs.verdicts) :
        obs.verdicts[k].attempt = att /\ ~obs.verdicts[k].is_grounded

\* C3: in adaptive mode every token delivered comes from the current attempt,
\* which is the terminal one, and from no attempt judged not grounded.
C3_NoRejectedTokens ==
    (IsRAG /\ request.adaptive) =>
        \A i \in 1..Len(out) :
            ~out[i].error =>
                /\ ~Rejected(out[i].attempt)
                /\ out[i].attempt = attempt
                /\ out[i].attempt = state.iteration - 1

\* a rejected attempt was followed by one whose tokens were delivered
C3_Witness ==
    /\ IsRAG /\ request.adaptive /\ pc = "done"
    /\ Rejected(0)
    /\ out # <<>> /\ ~out[1].error

\* C4: with max_retries >= 1, when the grader has judged max_retries - 1
\* attempts and each of them not grounded, the request ends after exactly
\* max_retries attempts, the last of them ungraded and delivered in full.
C4_LastAttemptDelivered ==
    (/\ IsRAG /\ pc = "done" /\ ~obs.error
     /\ state.max_retries >= 1
     /\ Len(obs.verdicts) >= state.max_retries - 1
     /\ \A k \in 1..Len(obs.verdicts) : ~obs.verdicts[k].is_grounded) =>
        /\ state.iteration = state.max_retries
        /\ calls.astream = state.max_retries
        /\ Len(obs.verdicts) = state.max_retries - 1
        /\ ~Rejected(state.max_retries - 1)
        /\ Delivered = state.generation
        /\ \A i \in 1..Len(out) : out[i].attempt = state.max_retries - 1

\* two not-grounded verdicts with max_retries = 3, the third answer delivered
C4_Witness ==
    /\ IsRAG /\ pc = "done" /\ ~obs.error
    /\ state.max_retries = 3
    /\ Len(obs.verdicts) = 2 /\ Rejected(0) /\ Rejected(1)
    /\ state.generation # <<>> /\ Delivered = state.generation

\* C5 as stated: whenever a call of some step has raised, the request ends with
\* exactly one error token, the last of the stream (stated for the requests
\* that have delivered something).
C5_AnyStepErrorToken ==
    (pc = "done" /\ obs.raised # {} /\ out # <<>>) =>
        /\ Cardinality(ErrorTokens) = 1
        /\ out[Len(out)].error

\* C5, amended: an exception of answer generation leaves the handler as exactly
\* one error token, the last of the stream, and ends the request; an exception
\* of the routing classifier, a retrieval backend or a grader call is caught
\* inside its step and produces no error token.
C5_GenerationErrorToken ==
    /\ pc # "raised"
    /\ "generation" \in obs.raised =>
          /\ pc = "done"
          /\ ErrorTokens = {Len(out)}
    /\ "generation" \notin obs.raised => ErrorTokens = {}

\* generation failed after a token had been delivered
C5_Witness ==
    /\ IsRAG /\ pc = "done"
    /\ "generation" \in obs.raised
    /\ Len(out) = 2 /\ ~out[1].error /\ out[2].error

\* C6: a GenerateWithRAG request that ended with an error token is counted as
\* failed by the metrics collector.
C6_ErrorRecorded ==
    (IsRAG /\ pc = "done" /\ obs.error) => metrics.total_errors >= 1

\* C7: state.route changes at most once and only from VectorStore to
\* WebSearch; the fallback branch runs at most once.
C7_RouteChangesOnce ==
    /\ [](obs.route_changes <= 1 /\ obs.fallbacks <= 1)
    /\ [][/\ (state'.route # state.route) =>
                 (state.route = VECTORSTORE /\ state'.route = WEB_SEARCH)
          /\ (obs'.fallbacks # obs.fallbacks) =>
                 (obs.fallbacks = 0 /\ obs'.fallbacks = 1)]_vars

\* the fallback ran, web search found nothing, and the request finished
C7_Witness ==
    /\ IsRAG /\ pc = "done"
    /\ obs.fallbacks = 1 /\ obs.route_changes = 1
    /\ obs.web_results = <<>>

PastFallback == IsRAG /\ pc \in {"loop", "astream", "grade_hallucinations", "replay", "done"}

\* C8: the fallback runs exactly when the route is VectorStore, the filtered
\* set is empty, the request is adaptive and web search is configured; then
\* state.route is WebSearch, state.documents is what web search returned, the
\* relevance grader has seen the vector-store documents only, and every prompt
\* is built from the web results.
C8_Fallback ==
    /\ ~PastFallback => obs.fallbacks = 0
    /\ PastFallback =>
          (obs.fallbacks = 1 <=>
               /\ route = VECTORSTORE
               /\ relevant_docs = <<>>
               /\ request.adaptive
               /\ self.web_search)
    /\ obs.fallbacks = 1 =>
          /\ state.route = WEB_SEARCH
          /\ state.documents = obs.web_results
          /\ calls.grade_documents = Len(docs)
          /\ \A i \in 1..Len(docs) : docs[i] \in VectorDocs
          /\ state.iteration >= 1 => prompt = build_prompt(request.prompt, obs.web_results)

\* the vector store returned nothing, web search returned documents, and an
\* answer generated from them was delivered
C8_Witness ==
    /\ IsRAG /\ pc = "done"
    /\ self.vector_store /\ docs = <<>>
    /\ obs.fallbacks = 1 /\ state.documents = <<"w1", "w1">>
    /\ prompt.context = <<"w1", "w1">>
    /\ out # <<>> /\ ~obs.error

\* the classification call raised, returned nothing, or returned a datasource
\* that is neither vectorstore nor web_search
ClassificationFailed ==
    \/ obs.classification.kind \in {"raises", "none"}
    \/ /\ obs.classification.kind = "returns"
       /\ obs.classification.datasource \notin {"vectorstore", "web_search"}

CuratedKeywords ==
    {vietnamese_uni_keywords[k] : k \in 1..Len(vietnamese_uni_keywords)} \cup
    {education_keywords[k] : k \in 1..Len(education_keywords)}

\* keyword occurs in query at some offset, letter case disregarded
OccursIgnoringCase(keyword, query) ==
    \E off \in 0..Len(query) :
        /\ off + Len(keyword) <= Len(query)
        /\ \A j \in 1..Len(keyword) : lower_char(query[off + j]) = lower_char(keyword[j])

\* C10: the keyword router answers VectorStore exactly for the queries that
\* contain a curated keyword as a substring, letter case disregarded, and
\* WebSearch for all others; it calls no backend.
C10_KeywordRouter ==
    pc = "returned" =>
        /\ (\E keyword \in CuratedKeywords : OccursIgnoringCase(keyword, request.prompt))
               => route = VECTORSTORE
        /\ ~(\E keyword \in CuratedKeywords : OccursIgnoringCase(keyword, request.prompt))
               => route = WEB_SEARCH
        /\ calls = NoCalls

\* a query with a keyword in capitals has been routed to the vector store
C10_Witness ==
    /\ pc = "returned"
    /\ request.prompt = <<"t", "J", "o", "b">>
    /\ route = VECTORSTORE

\* C11: neither router ever returns DIRECT_LLM: the route computed for a request
\* and state.route are VECTORSTORE or WEB_SEARCH in every state of the request,
\* whatever the classification call answers.
C11_NeverDirectModel ==
    IsRAG => /\ route \in {VECTORSTORE, WEB_SEARCH}
             /\ state.route \in {VECTORSTORE, WEB_SEARCH}

\* the classification named direct_llm and the router has returned
C11_Witness ==
    /\ IsRAG /\ pc = "retrieve"
    /\ obs.classification = [kind |-> "returns", datasource |-> DIRECT_LLM]
    /\ route = VECTORSTORE /\ state.route = VECTORSTORE

\* a retrieval call whose backend is not configured or whose backend call raised
FailedSearches ==
    {i \in 1..Len(obs.searches) : ~obs.searches[i].configured \/ obs.searches[i].raises}

\* C12: neither retrieval path raises.  A call of _retrieve_documents or of
\* _web_search_documents whose backend is not configured or whose backend call
\* fails returns the empty sequence; the request then goes on to generation:
\* it emits no error token unless generation itself fails, and a request that
\* is allowed an attempt does not finish without calling the model.
C12_RetrievalNeverRaises ==
    IsRAG =>
       /\ \A i \in FailedSearches : obs.searches[i].returned = <<>>
       /\ FailedSearches # {} /\ "generation" \notin obs.raised =>
              /\ ErrorTokens = {}
              /\ ~obs.error
       /\ FailedSearches # {} /\ pc = "done" /\ state.max_retries >= 1 => calls.astream >= 1

\* the vector store is not configured, the web search raised in the fallback,
\* and the request has finished with an answer
C12_Witness ==
    /\ IsRAG /\ pc = "done"
    /\ Len(obs.searches) = 2
    /\ ~obs.searches[1].configured /\ obs.searches[1].backend = "vector"
    /\ obs.searches[2].raises /\ obs.searches[2].backend = "web"
    /\ Delivered # <<>> /\ ErrorTokens = {}

\* C13: with an empty evidence set the groundedness grader returns grounded for
\* every generated text, and makes no model call.
C13_EmptyEvidenceGrounded ==
    request.rpc = "_grade_hallucinations" /\ pc = "returned" /\ docs = <<>> =>
        /\ Len(obs.verdicts) = 1
        /\ obs.verdicts[1].is_grounded
        /\ calls.grade_hallucinations = 0
        /\ calls = NoCalls

\* the grader has returned for a non-empty generated text and no evidence
C13_Witness ==
    /\ request.rpc = "_grade_hallucinations" /\ pc = "returned"
    /\ docs = <<>> /\ full_response # <<>>
    /\ Len(obs.verdicts) = 1 /\ obs.verdicts[1].is_grounded

\* the documents whose relevance grading call did not answer with another score
\* than "yes": those graded "yes" and those whose call failed
KeptByGrader == {i \in DOMAIN obs.scores : obs.scores[i] # "no"}

\* C14: a grader failure is never surfaced and resolves to the fail-open
\* default.  A document whose relevance grading call fails is kept in the
\* filtered set; a groundedness grading call that fails yields grounded, so the
\* attempt it graded is accepted (it stays the current attempt, the request
\* goes on to replay it and ends with its text delivered) and no retry follows.
C14_GraderFailOpen ==
    IsRAG /\ pc \notin {"route", "retrieve", "grade_documents"} =>
       /\ Len(relevant_docs) = Cardinality(KeptByGrader)
       /\ \A i \in DOMAIN obs.scores :
              obs.scores[i] = "raises" => \E j \in 1..Len(relevant_docs) : relevant_docs[j] = docs[i]
       /\ "grading" \in obs.raised /\ "generation" \notin obs.raised =>
              ErrorTokens = {} /\ ~obs.error
       /\ \A i \in 1..Len(obs.verdicts) :
              obs.verdicts[i].score = "raises" =>
                 /\ obs.verdicts[i].is_grounded
                 /\ i = Len(obs.verdicts)
                 /\ attempt = obs.verdicts[i].attempt
                 /\ state.iteration = attempt + 1
                 /\ pc \in {"replay", "done"}
                 /\ pc = "done" => Delivered = state.generation

\* one relevance grading call failed and the other said "no", the groundedness
\* grading call of the first attempt failed, and the request has finished
C14_Witness ==
    /\ IsRAG /\ pc = "done"
    /\ obs.scores = <<"raises", "no">> /\ Len(relevant_docs) = 1
    /\ Len(obs.verdicts) = 1 /\ obs.verdicts[1].score = "raises"
    /\ attempt = 0 /\ Delivered # <<>>

\* sub is inp with some of its positions left out: a strictly increasing choice
\* of positions of inp spells sub
IsSubsequence(sub, inp) ==
    \E pos \in [1..Len(sub) -> 1..Len(inp)] :
        /\ \A i \in 1..Len(sub) : sub[i] = inp[pos[i]]
        /\ \A i, j \in 1..Len(sub) : i < j => pos[i] < pos[j]

\* C15: the output of the relevance grader is a subsequence of its input, for
\* every combination of per-document verdicts and failures: every output
\* document is an input document, none is added or duplicated, and the
\* documents keep their relative retrieval order.
C15_FilteredSubsequence ==
    request.rpc = "_grade_documents" /\ pc = "returned" =>
        /\ IsSubsequence(relevant_docs, docs)
        /\ Len(relevant_docs) <= Len(docs)
        /\ \A d \in GraderDocs :
               Cardinality({j \in 1..Len(relevant_docs) : relevant_docs[j] = d})
                   <= Cardinality({i \in 1..Len(docs) : docs[i] = d})

\* two different documents, both kept (one by a failed grading call), in order
C15_Witness ==
    /\ request.rpc = "_grade_documents" /\ pc = "returned"
    /\ docs = <<"d2", "d1">>
    /\ obs.scores = <<"raises", "yes">>
    /\ relevant_docs = <<"d2", "d1">>

\* C16: a request with an empty query is rejected by input validation before
\* routing: the handler does not get past its routing step for it, so that no
\* route is computed and no retrieval, grading or generation call is made.
C16_EmptyQueryRejected ==
    IsRAG /\ request.prompt = <<>> /\ ~validate_query(request.prompt) =>
        /\ pc = "route"
        /\ calls = NoCalls
        /\ obs.searches = <<>>

\* C17: with adaptive = false a request takes the keyword-only path: routing
\* and relevance grading make no model classification call, so that the only
\* model calls of the request are those of answer generation.
C17_NonAdaptiveNoClassification ==
    IsRAG /\ ~request.adaptive =>
        /\ calls.router = 0
        /\ calls.grade_documents = 0
        /\ calls.grade_hallucinations = 0

\* C19: the groundedness grader is invoked after a generation attempt only
\* when adaptive mode is enabled, state.documents is non-empty and the attempt
\* is not the last one max_retries allows; each attempt is graded at most once,
\* so that a request invokes the grader at most max_retries - 1 times.
C19_GradingGuard ==
    IsRAG =>
       /\ pc = "grade_hallucinations" =>
              /\ request.adaptive
              /\ state.documents # <<>>
              /\ attempt < state.max_retries - 1
              /\ state.generation = full_response
       /\ Len(obs.verdicts) > 0 => request.adaptive /\ state.documents # <<>>
       /\ \A i \in 1..Len(obs.verdicts) :
              /\ obs.verdicts[i].attempt = i - 1
              /\ obs.verdicts[i].attempt < state.max_retries - 1
              /\ obs.verdicts[i].attempt <= attempt
       /\ calls.grade_hallucinations = Len(obs.verdicts)
       /\ Len(obs.verdicts) <= IF state.max_retries >= 1 THEN state.max_retries - 1 ELSE 0

\* a request with max_retries = 3 whose first two attempts were both graded:
\* the grader has been invoked max_retries - 1 times, and the last attempt runs
C19_Witness ==
    /\ IsRAG /\ state.max_retries = 3
    /\ Len(obs.verdicts) = 2 /\ calls.grade_hallucinations = 2
    /\ attempt = 2 /\ pc = "done"

\* generation has started: the first attempt of the retry loop has begun
GenerationStarted == IsRAG /\ state.iteration >= 1

\* C20: once generation has started, the retry loop leaves state.question,
\* state.documents and state.route unchanged (documents are never appended
\* to), and the prompt assembled for every attempt of a request is the same:
\* the one built from the question and the documents the loop was entered with.
C20_LoopFrame ==
    /\ [](GenerationStarted =>
             /\ state.question = request.prompt
             /\ prompt = build_prompt(state.question, state.documents))
    /\ [][GenerationStarted =>
             /\ state'.question = state.question
             /\ state'.documents = state.documents
             /\ state'.route = state.route
             /\ prompt' = prompt]_vars

\* the third attempt of a request with evidence runs on the prompt built
\* from the two documents the loop was entered with
C20_Witness ==
    /\ IsRAG /\ pc = "astream" /\ attempt = 2
    /\ Len(obs.verdicts) = 2
    /\ Len(state.documents) = 2
    /\ prompt.evidence /\ prompt.context = state.documents

\* the number of batches of at most batch_size that n documents make
BatchCount(n) == (n + batch_size - 1) \div batch_size

\* the total size of the first k upserts that succeeded
RECURSIVE SucceededSize(_)
SucceededSize(k) ==
    IF k = 0 THEN 0
    ELSE LET u == ingestion.upserts[k] IN
         SucceededSize(k - 1) + (IF u.ok THEN u.last - u.first + 1 ELSE 0)

\* C18: bulk ingestion upserts the documents in consecutive batches of at most
\* 100, in order: the k-th upsert holds the documents 100(k-1)+1 .. 100k (the
\* last one what is left).  A failed batch does not abort ingestion: when the
\* loop is over every batch has been attempted exactly once, whatever failed
\* before it.  The number of documents counted as ingested is the total size
\* of the batches that succeeded.
C18_BatchedIngestion ==
    request.rpc = "ingest_vietnamese_university_data" =>
       /\ \A k \in 1..Len(ingestion.upserts) :
              LET u == ingestion.upserts[k] IN
              /\ u.first = 100 * (k - 1) + 1
              /\ u.last = IF 100 * k <= ingestion.total_docs THEN 100 * k ELSE ingestion.total_docs
              /\ u.first <= u.last
              /\ u.last - u.first + 1 <= 100
       /\ ingestion.successful_ingestions = SucceededSize(Len(ingestion.upserts))
       /\ pc \in {"ingest_return", "returned"} /\ self.vector_store =>
              Len(ingestion.upserts) = BatchCount(ingestion.total_docs)
       /\ pc = "returned" /\ ingestion.result.success /\ ingestion.file_type = "json" =>
              /\ ingestion.result.total_chunks = ingestion.successful_ingestions
              /\ ingestion.result.summaries_created = ingestion.successful_ingestions

\* 250 documents: the first batch succeeded, the second failed, the third
\* (the 50 left) was still upserted, and 150 documents count as ingested
C18_Witness ==
    /\ request.rpc = "ingest_vietnamese_university_data" /\ pc = "returned"
    /\ ingestion.total_docs = 250
    /\ ingestion.upserts = << [first |-> 1, last |-> 100, ok |-> TRUE],
                              [first |-> 101, last |-> 200, ok |-> FALSE],
                              [first |-> 201, last |-> 250, ok |-> TRUE] >>
    /\ ingestion.successful_ingestions = 150
    /\ ingestion.result.success

\* the calls of a retrieval function made so far for the backend
SearchesOf(backend) == {i \in 1..Len(obs.searches) : obs.searches[i].backend = backend}

\* C21: nothing is retried below the controller.  Per request the vector
\* store is queried at most once, the web-search provider at most once and the
\* router classifier at most once, and each retrieved document is graded for
\* relevance exactly once; a call that failed is not issued again.
C21_NoRetryBelowController ==
    IsRAG =>
       /\ calls.vector <= 1 /\ calls.web <= 1 /\ calls.router <= 1
       /\ calls.vector = Cardinality({i \in SearchesOf("vector") : obs.searches[i].configured})
       /\ calls.web = Cardinality({i \in SearchesOf("web") : obs.searches[i].configured})
       /\ calls.router = IF obs.classification = NotCalled THEN 0 ELSE 1
       /\ calls.grade_documents =
              IF route = VECTORSTORE /\ pc \notin {"route", "retrieve", "grade_documents"}
              THEN Len(docs) ELSE 0
       /\ calls.grade_documents = Len(obs.scores)

\* the classifier was asked once, the vector search returned two documents,
\* each was graded once and found irrelevant, the web search of the fallback
\* failed and was not issued again; the request is done
C21_Witness ==
    /\ IsRAG /\ pc = "done"
    /\ calls.router = 1 /\ calls.vector = 1 /\ calls.web = 1
    /\ Len(docs) = 2 /\ calls.grade_documents = 2 /\ obs.scores = <<"no", "no">>
    /\ Len(obs.searches) = 2 /\ obs.searches[2].raises

\* the responses that carry text of the attempt
TokensOf(att) == {i \in 1..Len(out) : ~out[i].error /\ out[i].attempt = att}

\* C27: when a GenerateWithRAG request completes without an exception and has
\* delivered tokens, the delivered tokens concatenated are state.generation,
\* the text of the terminal attempt, each character once: all of them come
\* from the terminal attempt, which was either streamed as it was generated or
\* replayed after grading, never both.
C27_DeliveredOnce ==
    IsRAG /\ pc = "done" /\ ~obs.error /\ out # <<>> =>
        /\ Delivered = state.generation
        /\ state.generation = full_response
        /\ Len(Delivered) = Len(full_response)
        /\ TokensOf(attempt) = 1..Len(out)
        /\ replayed > 0 => ~stream_in_real_time(request.adaptive, attempt, state.max_retries)
        /\ replayed > 0 => replayed = Len(full_response) /\ Len(out) = replayed

\* a request whose second attempt was graded, accepted and replayed
C27_Witness ==
    /\ IsRAG /\ pc = "done" /\ ~obs.error
    /\ attempt = 1 /\ Len(obs.verdicts) = 2
    /\ replayed = 4 /\ Len(out) = 4
    /\ Delivered = <<"a", "b", "a", "b">>

\* C29: with adaptive = false and max_retries >= 1 a request makes exactly one
\* generation attempt whatever the evidence set, never calls the groundedness
\* grader, and forwards every token to the caller as it is produced.
C29_NonAdaptiveSingleAttempt ==
    IsRAG /\ ~request.adaptive /\ state.max_retries >= 1 =>
        /\ calls.astream <= 1
        /\ attempt <= 0 /\ state.iteration <= 1
        /\ pc = "done" => calls.astream = 1 /\ state.iteration = 1
        /\ calls.grade_hallucinations = 0 /\ obs.verdicts = <<>>
        /\ pc \notin {"grade_hallucinations", "replay"}
        /\ pc \in {"astream", "done"} => Delivered = full_response
        /\ replayed = 0

\* a non-adaptive request with two documents of evidence and three attempts
\* allowed is done after one attempt, its text delivered
C29_Witness ==
    /\ IsRAG /\ ~request.adaptive /\ state.max_retries = 3
    /\ Len(state.documents) = 2
    /\ pc = "done" /\ calls.astream = 1 /\ ~obs.error
    /\ Delivered = <<"a", "b", "a", "b">>

\* the limiter has been asked: the last call reached is_allowed
LimiterAsked == limiter.last.op # "" /\ limiter.last.key_ok

\* the requests of the client allowed before the last call whose timestamp
\* lies within window_seconds of the clock value of the last call
EarlierGrantedInWindow ==
    GrantedBetween(limiter.last.client_id,
                   limiter.last.now - limiter.window_seconds + 1, MaxClock)
        - (IF limiter.last.result THEN 1 ELSE 0)

\* C25: is_allowed(client) returns true exactly when fewer than max_requests
\* of that client's earlier allowed requests lie within the last
\* window_seconds; so for every client and every window of window_seconds at
\* most max_requests requests are allowed, whatever the sequence of calls and
\* of clock values.
C25_RateLimit ==
    request.rpc = "validate_request" =>
       /\ LimiterAsked =>
              (limiter.last.result <=> EarlierGrantedInWindow < limiter.max_requests)
       /\ \A client_id \in Clients, w \in Timestamps :
              GrantedBetween(client_id, w - limiter.window_seconds + 1, w) <= limiter.max_requests

\* the last call was rejected: validate_request found the API key invalid, or
\* is_allowed returned false
RejectedByKey(rl) == rl.last.op = "validate_request" /\ ~rl.last.key_ok

RejectedByLimit(rl) == rl.last.op # "" /\ rl.last.key_ok /\ ~rl.last.result

\* every entry of the client in `after` is an entry of the client in `before`:
\* for each timestamp, no more entries than before
NoEntryAdded(before, after, client_id) ==
    \A t \in Timestamps :
        Cardinality({i \in 1..Len(after[client_id].entries) : after[client_id].entries[i][1] = t})
            <= Cardinality({i \in 1..Len(before[client_id].entries) : before[client_id].entries[i][1] = t})

\* C30: a rejected request leaves the quota unchanged.  validate_request with
\* an invalid API key records nothing: the dict of the limiter is as before.
\* A call of is_allowed that returns false adds no entry.  Neither reduces
\* get_remaining_requests, for the client of the call and for every other
\* client, at whatever clock value it is read.
C30_RejectedKeepsQuota ==
    [][limiter' # limiter /\ (RejectedByKey(limiter') \/ RejectedByLimit(limiter')) =>
          /\ RejectedByKey(limiter') => limiter'.requests = limiter.requests
          /\ limiter'.granted = limiter.granted
          /\ \A client_id \in Clients :
                 /\ NoEntryAdded(limiter.requests, limiter'.requests, client_id)
                 /\ client_id # limiter'.last.client_id =>
                        limiter'.requests[client_id] = limiter.requests[client_id]
                 /\ \A now \in Timestamps :
                        get_remaining_requests(limiter', client_id, now)
                            >= get_remaining_requests(limiter, client_id, now)]_vars

\* a request with an invalid key was rejected for a client that has one
\* request left of two, after the other client was refused by the limiter
C30_Witness ==
    /\ request.rpc = "validate_request"
    /\ limiter.max_requests = 2
    /\ RejectedByKey(limiter) /\ limiter.last.client_id = "c1"
    /\ get_remaining_requests(limiter, "c1", limiter.last.now) = 1
    /\ get_remaining_requests(limiter, "c2", limiter.last.now) = 0

\* the threads that called record_request
Recorders == { t \in Threads : threads[t].op = "record_request" }

\* C26: the MetricsCollector is thread-safe: once the concurrent
\* record_request calls have returned, every one of them is counted once in
\* the history, in total_requests and, when it failed, in total_errors; and
\* whenever the lock is free every bucket's total is the sum of its successful
\* and failed requests.
C26_ThreadSafe ==
    /\ (\A t \in Recorders : threads[t].pc = "returned") =>
           /\ metrics.total_requests = Cardinality(Recorders)
           /\ metrics.total_errors = Cardinality({ t \in Recorders : ~threads[t].success })
           /\ Len(metrics.metrics_history) = Cardinality(Recorders)
    /\ metrics.lock = 0 =>
           \A b \in Buckets :
               metrics.aggregated_metrics[b].total_requests =
                   metrics.aggregated_metrics[b].successful_requests
                   + metrics.aggregated_metrics[b].failed_requests

\* two record_request calls to the same bucket, one of them failed, have both returned
C26_Witness ==
    /\ Cardinality(Recorders) >= 2
    /\ \A t \in Recorders : threads[t].pc = "returned"
    /\ \E t \in Recorders : ~threads[t].success
    /\ \E b \in Buckets : metrics.aggregated_metrics[b].total_requests >= 2

\* C28: export_metrics in the JSON format always returns.
C28_ExportReturns ==
    \A t \in Threads :
        (threads[t].op = "export_metrics") ~> (threads[t].pc = "returned")

\* C23: the backend client handles are initialized at most once in the life
\* of the process, and by main only: no handler of a gRPC or admin HTTP
\* request constructs them again.
C23_HandlesInitializedOnce ==
    /\ Len(process.servicers) <= 1
    /\ \A i \in DOMAIN process.servicers : process.servicers[i].created_by = "main"

\* the task is waiting for the answer of a backend call
WaitingOnBackend(t) == tasks[t].status \in {"awaiting", "calling"}

\* C22: every backend call of a request is a suspension point: while one
\* request waits for a backend, the event loop is free for, or held by, each
\* other request that has not finished.
C22_SuspensionPoints ==
    \A t \in Tasks, u \in Tasks :
        (t # u /\ WaitingOnBackend(t) /\ tasks[u].status # "done") => Running \subseteq {u}

====
